---- MODULE Spec2Model ----
(***************************************************************************)
(* A model of the scheduling / optimization core of the performance        *)
(* analyzer:                                                               *)
(*   - SynergyCore          (src/src/core/optimization/synergy_core.py)    *)
(*   - QuantumScheduler     (src/src/core/quantum/scheduler.py)            *)
(*   - ContinualLearner     (src/src/ai/models/continual_learner.py)       *)
(*   - QuantumEntanglement  (src/src/utils/quantum_utils.py)               *)
(*                                                                         *)
(* Units.  In the snapshots given to SynergyCore and ContinualLearner,     *)
(* percentages (cpu_percent, memory_percent) are held in hundredths of a   *)
(* percent, so 92 % is 9200 and 69.99 % is 6999; the sections of           *)
(* QuantumScheduler and QuantumEntanglement state their own units.  An     *)
(* action priority is held in units of 1/10000, so cpu_percent / 100.0 of  *)
(* a process at 92 % is 9200 (0.92) and action_threshold 0.7 is 7000.      *)
(* Wall-clock time is held in units of 250 ms: the 0.5 s cadence of        *)
(* SynergyCore is 2 units and the 1.0 s cadence of QuantumScheduler is 4.  *)
(***************************************************************************)
EXTENDS Integers, Sequences, FiniteSets, TLC

VARIABLES
    now,                  \* the wall clock, datetime.now()
    \* ---- SynergyCore
    optimization_history, \* SynergyCore.optimization_history
    last_optimization,    \* SynergyCore.last_optimization
    lowered,              \* pids whose priority class the control interface lowered
    sc_path,              \* the path the last process() call took
    sc_called_at,         \* the time of the last process() call
    sc_metrics,           \* the snapshot _analyze_system_state was given in it
    sc_actions,           \* the candidates _analyze_system_state returned in it
    sc_attempted,         \* the actions it handed to _apply_optimization
    sc_outcomes,          \* what became of each of them
    sc_returned,          \* the value it returned
    \* ---- ContinualLearner
    process_predictors,   \* pid -> the pid's model (its training steps since creation)
    optimizers,           \* pid -> the pid's optimizer (its lr, its steps since creation)
    feature_history,      \* pid -> the pid's window of feature vectors
    learning_rate,        \* ContinualLearner.learning_rate, in units of 0.001
    cl_time,              \* the timestamp of the next telemetry snapshot
    cl_malformed,         \* how many malformed snapshots update() was given
    cl_drift,             \* what _detect_drift did in the last update()
    cl_score,             \* the anomaly score of the last update(), NoScore if none
    cl_anomalies,         \* how many update() calls had a score above the threshold
    cl_drifted,           \* whether a drift was ever signalled
    cl_fresh,             \* pid -> samples pushed for it since the last drift
    cl_prediction,        \* the last predict_process_metrics call and its result
    \* ---- QuantumScheduler (core/quantum/scheduler.py)
    process_states,       \* the ProcessState of every tracked pid, in insertion order
    scheduler_history,    \* QuantumScheduler.optimization_history, the optimization log
    scheduler_last,       \* QuantumScheduler.last_optimization
    temperature,          \* QuantumScheduler.temperature, in millionths
    qs_path,              \* the path the last update() call took
    qs_hamiltonian,       \* the matrix _create_hamiltonian built in the last tick
    qs_absent,            \* pid -> the snapshots in a row that did not hold it, capped
    qs_query,             \* the last get_process_priority call and its result
    \* ---- QuantumEntanglement (utils/quantum_utils.py)
    entanglement_matrix,  \* QuantumEntanglement.entanglement_matrix, in thousandths
    coherence,            \* how many times coherence was multiplied by the decay
    qe_raised,            \* whether the last update_entanglement call raised
    \* ---- QuantumEntanglement (utils/quantum_entanglement.py)
    entangled_processes,  \* QuantumEntanglement.entangled_processes: pid -> related pids
    ep_processes,         \* the list the last entangle_processes call was given
    ep_similarity,        \* what _calculate_similarity returned in it, by positions i # j
    ep_query,             \* the last get_entangled_processes call and its result
    ep_calls,             \* how many entangle_processes calls were made
    \* ---- threads calling SynergyCore.process
    cc_pc,                \* thread -> where it is in process()
    cc_metrics,           \* thread -> the snapshot it holds while in process()
    \* ---- QuantumScheduler built with a given state dimension
    qc_built,             \* whether QuantumScheduler(num_qubits) returned an engine
    qc_num_qubits,        \* its num_qubits
    qc_states,            \* its process_states: pid -> quantum_state
    qc_raised,            \* whether its last update() ended in the except branch
    \* ---- ProcessManager and the processes of the operating system
    pm_procs,             \* pid -> the process: name, nice value, status, cpu_percent
    pm_result,            \* the last ProcessManager call and what it returned
    \* ---- QuantumScheduler (utils/quantum_scheduler.py)
    entanglement_level,   \* QuantumScheduler.entanglement_level
    optimization_mode,    \* QuantumScheduler.optimization_mode
    process_limit,        \* QuantumScheduler.process_limit
    us_result             \* the last call, its argument and what it returned

sc_vars == <<optimization_history, last_optimization, lowered, sc_path,
             sc_called_at, sc_metrics, sc_actions, sc_attempted, sc_outcomes, sc_returned>>

cl_vars == <<process_predictors, optimizers, feature_history, learning_rate,
             cl_time, cl_malformed, cl_drift, cl_score, cl_anomalies, cl_drifted,
             cl_fresh, cl_prediction>>

qs_vars == <<process_states, scheduler_history, scheduler_last, temperature,
             qs_path, qs_hamiltonian, qs_absent, qs_query>>

qe_vars == <<entanglement_matrix, coherence, qe_raised>>

ep_vars == <<entangled_processes, ep_processes, ep_similarity, ep_query, ep_calls>>

\* two callers of SynergyCore.process at once
cc_vars == <<cc_pc, cc_metrics>>

qc_vars == <<qc_built, qc_num_qubits, qc_states, qc_raised>>

pm_vars == <<pm_procs, pm_result>>

us_vars == <<entanglement_level, optimization_mode, process_limit, us_result>>

vars == <<now, sc_vars, cl_vars, qs_vars, qe_vars, ep_vars, cc_vars, qc_vars, pm_vars, us_vars>>

(***************************************************************************)
(* Bounds of the model.                                                    *)
(***************************************************************************)
MaxTime == 4        \* the clock stops after this many 250 ms units
MaxHistory == 2     \* process() is not called once the history is this long
MaxFailures == 1    \* control-interface calls that fail within one batch
CpuCount == 4       \* psutil.cpu_count() of the machine
TotalMemory == 8    \* psutil.virtual_memory().total of the machine
MaxSnapshots == 11  \* telemetry snapshots given to ContinualLearner.update
MaxAnomalies == 2   \* snapshots whose anomaly score is above the threshold
MaxMalformed == 1   \* snapshots holding a process entry that cannot be read
MaxSchedTime == 5   \* the clock of the scheduler stops after this many units
SchedulerStep == 2  \* the units between two readings of the scheduler's clock
NumProcesses == 2   \* QuantumEntanglement(num_processes)
MaxDecays == 1      \* update_entanglement calls that run to their end
MaxAbsent == 2      \* snapshots in a row without a pid that are counted
MaxEntangled == 3   \* processes in a list given to entangle_processes
MaxEntangleCalls == 2  \* entangle_processes calls

Min(a, b) == IF a <= b THEN a ELSE b
Max(a, b) == IF a >= b THEN a ELSE b
Abs(a) == IF a >= 0 THEN a ELSE -a

RECURSIVE Pow2(_)
Pow2(n) == IF n = 0 THEN 1 ELSE 2 * Pow2(n - 1)

(***************************************************************************)
(* SynergyCore: constants set by __init__ and literals of the code.        *)
(***************************************************************************)
action_threshold == 7000       \* 0.7
cpu_threshold == 8000          \* 80.0 %
memory_threshold == 8500       \* 85.0 %
io_threshold == 1000000
Cooldown == 2                  \* 0.5 s
CriticalPidCeiling == 100      \* proc.pid < 100
TopN == 5                      \* sorted_procs[:5]
ProcessUsageFloor == 5000      \* proc.cpu_percent > 50, proc.memory_percent > 50
HighUsage == 8000              \* proc.cpu_percent > 80, proc.memory_percent > 80
ThreadLimit == 100             \* proc.thread_count > 100, 'thread_limit': 100
IoPriority == 8000             \* priority=0.8
ThreadPriority == 7000         \* priority=0.7
DefaultAffinity == 65535       \* 0xFFFF

NoneName == "<None>"           \* a process whose name could not be read

NoIO == [present |-> FALSE, read_bytes |-> 0, write_bytes |-> 0]
IO(r, w) == [present |-> TRUE, read_bytes |-> r, write_bytes |-> w]

Proc(pid, name, cpu, mem, io, threads) ==
    [pid |-> pid, name |-> name, cpu_percent |-> cpu, memory_percent |-> mem,
     io_counters |-> io, thread_count |-> threads]

\* str.lower() over the process names of the model
Lower(name) ==
    CASE name = "SvcHost.exe" -> "svchost.exe"
      [] name = "System"      -> "system"
      [] name = "EXPLORER.EXE" -> "explorer.exe"
      [] OTHER -> name

ProtectedNames == {"system", "svchost.exe", "explorer.exe"}

\* the cadence test lost: any elapsed time passes
SynergyShouldOptimizeAlways == now - last_optimization >= 0

\* SynergyCore._should_optimize
SynergyShouldOptimize == now - last_optimization >= Cooldown

\* SynergyCore._is_process_optimizable
IsProcessOptimizable(proc) ==
    IF proc.pid < CriticalPidCeiling THEN FALSE
    ELSE IF proc.name = NoneName THEN FALSE     \* .lower() raises: except -> False
    ELSE IF Lower(proc.name) \in ProtectedNames THEN FALSE
    ELSE TRUE

\* the sort key of _optimize_cpu_usage / _optimize_memory_usage
UsageOf(proc, resource) ==
    IF resource = "cpu" THEN proc.cpu_percent ELSE proc.memory_percent

RECURSIVE InsertDesc(_, _, _)
\* x put into the descending sequence s after every element whose key is >= its own
InsertDesc(s, x, resource) ==
    IF s = <<>> THEN <<x>>
    ELSE IF UsageOf(Head(s), resource) >= UsageOf(x, resource)
         THEN <<Head(s)>> \o InsertDesc(Tail(s), x, resource)
         ELSE <<x>> \o s

RECURSIVE SortedDesc(_, _)
\* sorted(s, key=lambda x: x.<resource>_percent, reverse=True): stable, descending
SortedDesc(s, resource) ==
    IF s = <<>> THEN <<>>
    ELSE InsertDesc(SortedDesc(SubSeq(s, 1, Len(s) - 1), resource), s[Len(s)], resource)

\* the slice takes one process more
TopOneMore(s) == SubSeq(s, 1, Min(TopN + 1, Len(s)))

\* sorted_procs[:5]
Top(s) == SubSeq(s, 1, Min(TopN, Len(s)))

\* SynergyCore._calculate_optimal_affinity
CalculateOptimalAffinity(proc) ==
    IF CpuCount <= 0 THEN DefaultAffinity
    ELSE IF proc.cpu_percent > HighUsage THEN Pow2(CpuCount) - 1
    ELSE Pow2(CpuCount \div 2) - 1

\* SynergyCore._calculate_working_set_limit: int(percent * total * 0.5 | 0.75)
CalculateWorkingSetLimit(proc) ==
    IF proc.memory_percent > HighUsage
    THEN (proc.memory_percent * TotalMemory) \div 200
    ELSE (proc.memory_percent * TotalMemory * 3) \div 400

Action(pid, type, params, priority) ==
    [pid |-> pid, action_type |-> type, parameters |-> params,
     timestamp |-> now, priority |-> priority]

CpuAction(proc) ==
    Action(proc.pid, "cpu_optimization",
           [priority_class |-> "BELOW_NORMAL", value |-> CalculateOptimalAffinity(proc)],
           proc.cpu_percent)

MemoryAction(proc) ==
    Action(proc.pid, "memory_optimization",
           [priority_class |-> "BELOW_NORMAL", value |-> CalculateWorkingSetLimit(proc)],
           proc.memory_percent)

IoAction(proc) ==
    Action(proc.pid, "io_optimization",
           [priority_class |-> "BELOW_NORMAL", value |-> 0],
           IoPriority)

ThreadAction(proc) ==
    Action(proc.pid, "thread_optimization",
           [priority_class |-> "BELOW_NORMAL", value |-> ThreadLimit],
           ThreadPriority)

RECURSIVE UsageActions(_, _)
\* the loop of _optimize_cpu_usage / _optimize_memory_usage over the top consumers
UsageActions(procs, resource) ==
    IF procs = <<>> THEN <<>>
    ELSE (IF UsageOf(Head(procs), resource) > ProcessUsageFloor
          THEN <<IF resource = "cpu" THEN CpuAction(Head(procs))
                                     ELSE MemoryAction(Head(procs))>>
          ELSE <<>>)
         \o UsageActions(Tail(procs), resource)

\* SynergyCore._optimize_cpu_usage
OptimizeCpuUsage(system_metrics) ==
    UsageActions(Top(SortedDesc(system_metrics.processes, "cpu")), "cpu")

\* SynergyCore._optimize_memory_usage
OptimizeMemoryUsage(system_metrics) ==
    UsageActions(Top(SortedDesc(system_metrics.processes, "memory")), "memory")

\* the two tests made with >= in place of >
OptimizeProcessAtThreshold(proc) ==
    (IF proc.io_counters.present
        /\ proc.io_counters.read_bytes + proc.io_counters.write_bytes >= io_threshold
     THEN <<IoAction(proc)>> ELSE <<>>)
    \o
    (IF proc.thread_count >= ThreadLimit THEN <<ThreadAction(proc)>> ELSE <<>>)

\* SynergyCore._optimize_process
OptimizeProcess(proc) ==
    (IF proc.io_counters.present
        /\ proc.io_counters.read_bytes + proc.io_counters.write_bytes > io_threshold
     THEN <<IoAction(proc)>> ELSE <<>>)
    \o
    (IF proc.thread_count > ThreadLimit THEN <<ThreadAction(proc)>> ELSE <<>>)

RECURSIVE ProcessActions(_)
\* the loop of _analyze_system_state over the processes of the snapshot
ProcessActions(procs) ==
    IF procs = <<>> THEN <<>>
    ELSE (IF IsProcessOptimizable(Head(procs)) THEN OptimizeProcess(Head(procs)) ELSE <<>>)
         \o ProcessActions(Tail(procs))

\* SynergyCore._analyze_system_state
AnalyzeSystemState(system_metrics) ==
    (IF system_metrics.cpu_percent > cpu_threshold
     THEN OptimizeCpuUsage(system_metrics) ELSE <<>>)
    \o
    (IF system_metrics.memory_percent > memory_threshold
     THEN OptimizeMemoryUsage(system_metrics) ELSE <<>>)
    \o
    ProcessActions(system_metrics.processes)

\* the threshold test made strict
PassesThresholdStrict(action) == action.priority > action_threshold

\* the test of the loop of SynergyCore.process
PassesThreshold(action) == action.priority >= action_threshold

RECURSIVE Passing(_)
\* the actions of a candidate list that process() hands to _apply_optimization
Passing(actions) ==
    IF actions = <<>> THEN <<>>
    ELSE (IF PassesThreshold(Head(actions)) THEN <<Head(actions)>> ELSE <<>>)
         \o Passing(Tail(actions))

(***************************************************************************)
(* The process control interface (win32api / win32process).  A call on it  *)
(* may fail; _apply_optimization then ends in its except branch.           *)
(*   "ok"          every call returned                                     *)
(*   "open_failed" OpenProcess raised: nothing was changed                 *)
(*   "late_failed" a call after SetPriorityClass raised (the affinity or   *)
(*                 working-set call, CloseHandle): the class is lowered    *)
(***************************************************************************)
Outcomes == {"ok", "open_failed", "late_failed"}

\* the append moved out of the try block
RecordedAlways(outcome) == TRUE

\* SynergyCore._apply_optimization: whether the action reaches the append
Recorded(outcome) == outcome = "ok"

\* SynergyCore._apply_optimization: whether SetPriorityClass was carried out
Lowers(outcome) == outcome \in {"ok", "late_failed"}

\* the try ... except of _apply_optimization left out
ApplyRaisesUncaught(outcome) == outcome # "ok"

\* SynergyCore._apply_optimization: whether a failure leaves it as an exception
\* (its try ... except Exception logs the failure and returns)
ApplyRaises(outcome) == FALSE

RECURSIVE RunLength(_)
\* how many actions of a batch the loop of process() reaches: it stops at the
\* first _apply_optimization that raises
RunLength(outcomes) ==
    IF outcomes = <<>> THEN 0
    ELSE IF ApplyRaises(Head(outcomes)) THEN 1
    ELSE 1 + RunLength(Tail(outcomes))

\* whether the loop of process() ran to its end
Completes(outcomes) == \A i \in 1..Len(outcomes) : ~ApplyRaises(outcomes[i])

RECURSIVE RecordedOf(_, _)
\* the actions of a batch that _apply_optimization appended, in order
RecordedOf(attempted, outcomes) ==
    IF attempted = <<>> THEN <<>>
    ELSE (IF Recorded(Head(outcomes)) THEN <<Head(attempted)>> ELSE <<>>)
         \o RecordedOf(Tail(attempted), Tail(outcomes))

LoweredBy(attempted, outcomes) ==
    {attempted[i].pid : i \in {j \in 1..Len(attempted) : Lowers(outcomes[j])}}

FailureModes == Outcomes \ {"ok"}

RECURSIVE FailureSets(_, _)
\* the sets of at most k of the positions 1..n
FailureSets(n, k) ==
    IF n = 0 \/ k = 0 THEN {{}}
    ELSE FailureSets(n - 1, k) \cup {F \cup {n} : F \in FailureSets(n - 1, k - 1)}

\* every way at most MaxFailures of n control-interface uses fail
OutcomeSeqs(n) ==
    UNION { { [i \in 1..n |-> IF i \in F THEN m[i] ELSE "ok"] : m \in [F -> FailureModes] }
            : F \in FailureSets(n, MaxFailures) }

(***************************************************************************)
(* Telemetry snapshots given to the components.                            *)
(***************************************************************************)
P_sys  == Proc(50,  "worker.exe",   9200, 4000, NoIO,               10)
P_work == Proc(500, "worker.exe",   9200, 4000, IO(0, 0),           10)
P_svc  == Proc(200, "SvcHost.exe",  3000, 9000, IO(900000, 200000), 150)
P_mid  == Proc(300, "chrome.exe",   6000, 5500, IO(500000, 500000), 101)
P_edge == Proc(400, "python.exe",   7000, 5000, IO(1000000, 1),     100)
P_low  == Proc(600, "idle.exe",     6999, 1000, NoIO,               5)
P_db   == Proc(700, "db.exe",       5500, 6000, NoIO,               50)
P_anon == Proc(800, NoneName,       5100, 2000, IO(0, 2000000),     500)

ProcessLists ==
    { <<>>,
      <<P_work>>,
      <<P_sys, P_svc>>,
      <<P_mid, P_sys, P_low, P_svc, P_edge, P_work, P_db, P_anon>> }

\* a snapshot is malformed when reading it raises (processes is not iterable)
Snapshots ==
    [cpu_percent : {8000, 9500}, memory_percent : {8500, 9000},
     processes : ProcessLists, malformed : {FALSE}]
    \cup
    [cpu_percent : {5000}, memory_percent : {5000},
     processes : {<<>>}, malformed : {TRUE}]

NoSnapshot == [cpu_percent |-> 0, memory_percent |-> 0, processes |-> <<>>,
               malformed |-> FALSE]

(***************************************************************************)
(* SynergyCore.__init__                                                    *)
(***************************************************************************)
SynergyInit ==
    /\ optimization_history = <<>>
    /\ last_optimization = now
    /\ lowered = {}
    /\ sc_path = "none"
    /\ sc_called_at = now
    /\ sc_metrics = NoSnapshot
    /\ sc_actions = <<>>
    /\ sc_attempted = <<>>
    /\ sc_outcomes = <<>>
    /\ sc_returned = "None"

(***************************************************************************)
(* SynergyCore.process(system_metrics)                                     *)
(***************************************************************************)
\* the cadence has not elapsed: return
ProcessSkipped(system_metrics) ==
    /\ ~SynergyShouldOptimize
    /\ sc_path' = "skipped"
    /\ sc_called_at' = now
    /\ sc_metrics' = NoSnapshot
    /\ sc_actions' = <<>>
    /\ sc_attempted' = <<>>
    /\ sc_outcomes' = <<>>
    /\ sc_returned' = "None"
    /\ UNCHANGED <<now, optimization_history, last_optimization, lowered>>

\* _analyze_system_state raises: the except branch of process logs and returns
ProcessRaised(system_metrics) ==
    /\ SynergyShouldOptimize
    /\ system_metrics.malformed
    /\ sc_path' = "raised"
    /\ sc_called_at' = now
    /\ sc_metrics' = system_metrics
    /\ sc_actions' = <<>>
    /\ sc_attempted' = <<>>
    /\ sc_outcomes' = <<>>
    /\ sc_returned' = "None"
    /\ UNCHANGED <<now, optimization_history, last_optimization, lowered>>

\* the batch: analyze, apply every candidate at or above the threshold, stamp
ProcessBatch(system_metrics) ==
    /\ SynergyShouldOptimize
    /\ ~system_metrics.malformed
    /\ LET actions == AnalyzeSystemState(system_metrics)
           passing == Passing(actions)
       IN  \E results \in OutcomeSeqs(Len(passing)) :
             LET reached == RunLength(results)
                 attempted == SubSeq(passing, 1, reached)
                 outcomes == SubSeq(results, 1, reached)
             IN  /\ optimization_history' =
                        optimization_history \o RecordedOf(attempted, outcomes)
                 /\ lowered' = lowered \cup LoweredBy(attempted, outcomes)
                 /\ last_optimization' =
                        IF Completes(outcomes) THEN now ELSE last_optimization
                 /\ sc_path' = IF Completes(outcomes) THEN "batch" ELSE "raised"
                 /\ sc_called_at' = now
                 /\ sc_metrics' = system_metrics
                 /\ sc_actions' = actions
                 /\ sc_attempted' = attempted
                 /\ sc_outcomes' = outcomes
                 /\ sc_returned' = "None"
    /\ UNCHANGED now

Process ==
    /\ Len(optimization_history) < MaxHistory
    /\ \E system_metrics \in Snapshots :
         \/ ProcessSkipped(system_metrics)
         \/ ProcessRaised(system_metrics)
         \/ ProcessBatch(system_metrics)

\* time passes
Tick ==
    /\ now < MaxTime
    /\ now' = now + 1
    /\ UNCHANGED <<sc_vars, cl_vars, qs_vars, qe_vars, ep_vars, cc_vars, qc_vars, pm_vars, us_vars>>

SynergyNext == (Process /\ UNCHANGED <<cl_vars, qs_vars, qe_vars, ep_vars, cc_vars, qc_vars, pm_vars, us_vars>>) \/ Tick

(***************************************************************************)
(* SynergyCore.process called from several threads.  process() takes no    *)
(* lock and sets no flag: a thread is between its cadence check and its    *)
(* stamp of last_optimization for as long as its batch lasts.              *)
(***************************************************************************)
NumThreads == 2
Threads == 1..NumThreads

\* what the single-caller model records of the last call
sc_ghost == <<sc_path, sc_called_at, sc_metrics, sc_actions, sc_attempted,
              sc_outcomes, sc_returned>>

ConcurrentInit ==
    /\ cc_pc = [t \in Threads |-> "idle"]
    /\ cc_metrics = [t \in Threads |-> NoSnapshot]

\* thread t calls process(system_metrics) and _should_optimize() lets it
\* through; a call that the cadence check turns away changes nothing
Enter(t) ==
    /\ cc_pc[t] = "idle"
    /\ Len(optimization_history) < MaxHistory
    /\ SynergyShouldOptimize
    /\ \E system_metrics \in Snapshots :
         cc_metrics' = [cc_metrics EXCEPT ![t] = system_metrics]
    /\ cc_pc' = [cc_pc EXCEPT ![t] = "running"]
    /\ UNCHANGED <<now, sc_vars>>

\* thread t analyses its snapshot and applies the candidates; an exception
\* ends the call in the except branch of process()
Apply(t) ==
    /\ cc_pc[t] = "running"
    /\ IF cc_metrics[t].malformed
       THEN /\ cc_pc' = [cc_pc EXCEPT ![t] = "idle"]
            /\ cc_metrics' = [cc_metrics EXCEPT ![t] = NoSnapshot]
            /\ UNCHANGED <<optimization_history, lowered>>
       ELSE LET passing == Passing(AnalyzeSystemState(cc_metrics[t]))
            IN  \E results \in OutcomeSeqs(Len(passing)) :
                  LET reached == RunLength(results)
                      attempted == SubSeq(passing, 1, reached)
                      outcomes == SubSeq(results, 1, reached)
                  IN  /\ optimization_history' =
                             optimization_history \o RecordedOf(attempted, outcomes)
                      /\ lowered' = lowered \cup LoweredBy(attempted, outcomes)
                      /\ cc_pc' = [cc_pc EXCEPT ![t] =
                                      IF Completes(outcomes) THEN "applied" ELSE "idle"]
                      /\ cc_metrics' = [cc_metrics EXCEPT ![t] =
                                           IF Completes(outcomes) THEN @ ELSE NoSnapshot]
    /\ UNCHANGED <<now, last_optimization, sc_ghost>>

\* thread t stamps last_optimization and returns
Stamp(t) ==
    /\ cc_pc[t] = "applied"
    /\ last_optimization' = now
    /\ cc_pc' = [cc_pc EXCEPT ![t] = "idle"]
    /\ cc_metrics' = [cc_metrics EXCEPT ![t] = NoSnapshot]
    /\ UNCHANGED <<now, optimization_history, lowered, sc_ghost>>

ConcurrentNext ==
    \/ \E t \in Threads : Enter(t) /\ UNCHANGED <<cl_vars, qs_vars, qe_vars, ep_vars, qc_vars, pm_vars, us_vars>>
    \/ \E t \in Threads : Apply(t) /\ UNCHANGED <<cl_vars, qs_vars, qe_vars, ep_vars, qc_vars, pm_vars, us_vars>>
    \/ \E t \in Threads : Stamp(t) /\ UNCHANGED <<cl_vars, qs_vars, qe_vars, ep_vars, qc_vars, pm_vars, us_vars>>
    \/ Tick

(***************************************************************************)
(* ContinualLearner: constants set by __init__ and literals of the code.   *)
(***************************************************************************)
BaseLearningRate == 1          \* 0.001, in units of 0.001
sequence_length == 10
AnomalyThreshold == 80         \* score > 0.8, in hundredths

NoScore == -1
Scores == {80, 81}             \* anomaly scores, in hundredths

\* a process entry of a snapshot; readable is FALSE for one whose io_counters
\* lacks a key, so that _extract_features raises on it
LProc(pid, cpu, mem, io, threads, priority, readable) ==
    [pid |-> pid, cpu_percent |-> cpu, memory_percent |-> mem, io_counters |-> io,
     thread_count |-> threads, priority |-> priority, readable |-> readable]

L_a   == LProc(500, 9200, 4000, IO(10, 20), 10, 8,  TRUE)
L_b   == LProc(700, 3000, 6000, NoIO,       50, 13, TRUE)
L_bad == LProc(900, 1000, 1000, NoIO,       1,  8,  FALSE)

UnknownPid == 999

\* the process lists of the snapshots given to ContinualLearner.update: a process
\* that was seen stays in the snapshots that follow
LearnerLists ==
    IF L_b.pid \in DOMAIN process_predictors
    THEN {<<L_a, L_b>>, <<L_a, L_bad, L_b>>}
    ELSE {<<L_a>>, <<L_a, L_b>>, <<L_a, L_bad, L_b>>}

\* ContinualLearner._extract_features
ExtractFeatures(proc, timestamp) ==
    [pid |-> proc.pid, cpu_usage |-> proc.cpu_percent,
     memory_usage |-> proc.memory_percent,
     io_usage |-> IF proc.io_counters.present
                  THEN proc.io_counters.read_bytes + proc.io_counters.write_bytes
                  ELSE 0,
     thread_count |-> proc.thread_count, priority |-> proc.priority,
     timestamp |-> timestamp]

\* ProcessPredictor().to(device): a model that was not trained yet
NewPredictor == [trained |-> 0]

\* optim.Adam(parameters, lr=lr): an optimizer that made no step yet
NewOptimizer(lr) == [lr |-> lr, steps |-> 0]

\* the learner's three maps, as one value
Learner(pp, opt, fh) == [pp |-> pp, opt |-> opt, fh |-> fh]

\* ContinualLearner._train_process_model: one training step of the pid's model
TrainProcessModel(st, pid) ==
    Learner([st.pp EXCEPT ![pid].trained = @ + 1],
            [st.opt EXCEPT ![pid].steps = @ + 1],
            st.fh)

\* a push that drops the newest entry once the window is over capacity
PushedEvictNewest(window, features) ==
    LET w == Append(window, features)
    IN  IF Len(w) > sequence_length THEN SubSeq(w, 1, sequence_length) ELSE w

\* the window after a push: the oldest entry goes once it is over capacity
Pushed(window, features) ==
    LET w == Append(window, features)
    IN  IF Len(w) > sequence_length THEN Tail(w) ELSE w

\* ContinualLearner._update_process_model
UpdateProcessModel(st, pid, features, lr) ==
    LET known == IF pid \in DOMAIN st.pp THEN st
                 ELSE Learner(st.pp @@ (pid :> NewPredictor),
                              st.opt @@ (pid :> NewOptimizer(lr)),
                              st.fh @@ (pid :> <<>>))
        pushed == Learner(known.pp, known.opt,
                          [known.fh EXCEPT ![pid] = Pushed(@, features)])
    IN  IF Len(pushed.fh[pid]) >= sequence_length
        THEN TrainProcessModel(pushed, pid)
        ELSE pushed

RECURSIVE UpdateLoop(_, _, _, _)
\* the loop of ContinualLearner.update over the processes of the snapshot;
\* an entry _extract_features raises on ends it, and update() with it
UpdateLoop(st, procs, timestamp, lr) ==
    IF procs = <<>> THEN [st |-> st, raised |-> FALSE, pushed |-> {}]
    ELSE IF ~Head(procs).readable THEN [st |-> st, raised |-> TRUE, pushed |-> {}]
    ELSE LET rest == UpdateLoop(
                        UpdateProcessModel(st, Head(procs).pid,
                                           ExtractFeatures(Head(procs), timestamp), lr),
                        Tail(procs), timestamp, lr)
         IN  [rest EXCEPT !.pushed = @ \cup {Head(procs).pid}]

\* a drift reset that restores the baseline rate in the new optimizers
HandleDriftBaseline(st, lr) ==
    Learner([pid \in DOMAIN st.pp |-> NewPredictor],
            [pid \in DOMAIN st.pp |-> NewOptimizer(BaseLearningRate)],
            [pid \in DOMAIN st.pp |-> <<>>])

\* ContinualLearner._handle_drift
HandleDrift(st, lr) ==
    Learner([pid \in DOMAIN st.pp |-> NewPredictor],
            [pid \in DOMAIN st.pp |-> NewOptimizer(lr)],
            [pid \in DOMAIN st.pp |-> <<>>])

\* the rate escalated by addition of the baseline instead of doubling
EscalatedRateAdded(lr) == lr + 1

\* ContinualLearner._handle_anomaly: the new shared learning rate
EscalatedRate(lr) == lr * 2

\* ContinualLearner._handle_anomaly: the optimizers with the new rate written
HandleAnomaly(st, lr) ==
    Learner(st.pp, [pid \in DOMAIN st.opt |-> [st.opt[pid] EXCEPT !.lr = lr]], st.fh)

\* ContinualLearner._detect_anomalies: whether the handler fires
IsAnomaly(score) == score # NoScore /\ score > AnomalyThreshold

NoPrediction == [called |-> FALSE, pid |-> 0, known |-> FALSE, window |-> 0,
                 fresh |-> 0, drifted |-> FALSE, result |-> "None"]

\* ContinualLearner.__init__
LearnerInit ==
    /\ process_predictors = <<>>
    /\ optimizers = <<>>
    /\ feature_history = <<>>
    /\ learning_rate = BaseLearningRate
    /\ cl_time = 0
    /\ cl_malformed = 0
    /\ cl_drift = "not_run"
    /\ cl_score = NoScore
    /\ cl_anomalies = 0
    /\ cl_drifted = FALSE
    /\ cl_fresh = <<>>
    /\ cl_prediction = NoPrediction

(***************************************************************************)
(* ContinualLearner.update(system_metrics).  The drift detector and the    *)
(* anomaly detector are the river library's: what they answer is an input. *)
(*   drift:  "none" | "drift"; a detector that raises is logged by          *)
(*           _detect_drift and has the effect of "none"                    *)
(*   score:  NoScore (the detector raised) or a score                      *)
(***************************************************************************)
LearnerUpdate ==
    /\ cl_time < MaxSnapshots
    /\ \E procs \in LearnerLists, drift \in {"none", "drift"},
          score \in Scores \cup {NoScore} :
         LET loop == UpdateLoop(Learner(process_predictors, optimizers, feature_history),
                                procs, cl_time, learning_rate)
             fresh1 == [pid \in DOMAIN loop.st.pp |->
                          (IF pid \in DOMAIN cl_fresh THEN cl_fresh[pid] ELSE 0)
                          + (IF pid \in loop.pushed THEN 1 ELSE 0)]
         IN  IF loop.raised
             THEN \* the except branch of update(): neither detector runs
                  /\ cl_malformed < MaxMalformed
                  /\ drift = "none" /\ score = NoScore
                  /\ process_predictors' = loop.st.pp
                  /\ optimizers' = loop.st.opt
                  /\ feature_history' = loop.st.fh
                  /\ cl_fresh' = fresh1
                  /\ cl_malformed' = cl_malformed + 1
                  /\ cl_drift' = "not_run"
                  /\ cl_score' = NoScore
                  /\ UNCHANGED <<learning_rate, cl_anomalies, cl_drifted>>
             ELSE LET afterDrift == IF drift = "drift"
                                    THEN HandleDrift(loop.st, learning_rate)
                                    ELSE loop.st
                      rate == IF IsAnomaly(score) THEN EscalatedRate(learning_rate)
                              ELSE learning_rate
                      final == IF IsAnomaly(score) THEN HandleAnomaly(afterDrift, rate)
                               ELSE afterDrift
                  IN  /\ IsAnomaly(score) => cl_anomalies < MaxAnomalies
                      /\ process_predictors' = final.pp
                      /\ optimizers' = final.opt
                      /\ feature_history' = final.fh
                      /\ learning_rate' = rate
                      /\ cl_fresh' = IF drift = "drift"
                                     THEN [pid \in DOMAIN fresh1 |-> 0] ELSE fresh1
                      /\ cl_drift' = drift
                      /\ cl_score' = score
                      /\ cl_anomalies' = cl_anomalies + (IF IsAnomaly(score) THEN 1 ELSE 0)
                      /\ cl_drifted' = (cl_drifted \/ drift = "drift")
                      /\ UNCHANGED cl_malformed
    /\ cl_time' = cl_time + 1
    /\ cl_prediction' = NoPrediction

\* ContinualLearner.predict_process_metrics(pid): what it returns
PredictProcessMetrics(pid) ==
    IF pid \notin DOMAIN process_predictors \/ feature_history[pid] = <<>>
    THEN "None"
    ELSE "Prediction"

LearnerPredict ==
    /\ \E pid \in {L_a.pid, L_b.pid, UnknownPid} :
         cl_prediction' =
            [called |-> TRUE, pid |-> pid,
             known |-> pid \in DOMAIN process_predictors,
             window |-> IF pid \in DOMAIN feature_history
                        THEN Len(feature_history[pid]) ELSE 0,
             fresh |-> IF pid \in DOMAIN cl_fresh THEN cl_fresh[pid] ELSE 0,
             drifted |-> cl_drifted,
             result |-> PredictProcessMetrics(pid)]
    /\ UNCHANGED <<process_predictors, optimizers, feature_history, learning_rate,
                   cl_time, cl_malformed, cl_drift, cl_score, cl_anomalies,
                   cl_drifted, cl_fresh>>

LearnerNext ==
    \/ LearnerUpdate /\ UNCHANGED <<now, sc_vars, qs_vars, qe_vars, ep_vars, cc_vars, qc_vars, pm_vars, us_vars>>
    \/ LearnerPredict /\ UNCHANGED <<now, sc_vars, qs_vars, qe_vars, ep_vars, cc_vars, qc_vars, pm_vars, us_vars>>

(***************************************************************************)
(* QuantumScheduler (core/quantum/scheduler.py).  Percentages are whole    *)
(* percents here.  A component of a state vector is held in hundredths, an *)
(* interaction strength in thirds (the division by 3.0 is made where the   *)
(* force is used), the temperature in millionths, and a priority in units  *)
(* of 1/4000: 0.7 * mean(state) + 0.3 * (cpu + memory) / 2.0 is            *)
(* (7 * sum(state) + 600 * (cpu + memory)) / 4000 for four components.     *)
(***************************************************************************)
num_qubits == 4
AnnealingSteps == 100
RelaxationInterval == 4        \* 1.0 s
InitialTemperature == 1000000  \* 1.0, in millionths
annealing_rate == 950          \* 0.95, in thousandths
min_temperature == 10000       \* 0.01, in millionths

\* a / b rounded to the nearest integer, for b > 0
RoundDiv(a, b) == (2 * a + b) \div (2 * b)

RECURSIVE IsqrtIn(_, _, _)
IsqrtIn(n, lo, hi) ==
    IF lo >= hi THEN lo
    ELSE LET mid == (lo + hi + 1) \div 2
         IN  IF mid * mid <= n THEN IsqrtIn(n, mid, hi) ELSE IsqrtIn(n, lo, mid - 1)

\* the integer part of the square root of n, for 0 <= n < 2^31
Isqrt(n) == IsqrtIn(n, 0, 46340)

\* a state vector every component of which is NaN
NaNState == <<>>

Num(n) == [nan |-> FALSE, value |-> n]
NaNPriority == [nan |-> TRUE, value |-> 0]

\* np.random.rand(num_qubits): vectors with components in [0, 1)
\* what np.random.rand returns for the pids of one update() call that are new
RandDraws ==
    { [pid \in {500, 700, 800} |-> <<10, 90, 30, 70>>],
      [pid \in {500, 700, 800} |-> IF pid = 500 THEN <<50, 24, 76, 12>>
                                                ELSE <<10, 90, 30, 70>>],
      [pid \in {500, 700, 800} |-> IF pid = 500 THEN <<50, 24, 76, 12>>
                                                ELSE <<25, 12, 38, 6>>] }

\* the draws for a set of new pids
DrawsFor(pids) == {[pid \in pids |-> draw[pid]] : draw \in RandDraws}

Q_a1  == LProc(500, 100, 100, NoIO,     10, 8, TRUE)
Q_a2  == LProc(500, 50,  20,  IO(1, 1), 10, 8, TRUE)
Q_b   == LProc(700, 51,  20,  NoIO,     50, 13, TRUE)
Q_c   == LProc(800, 50,  21,  NoIO,     5,  8, TRUE)
Q_bad == LProc(900, 10,  10,  NoIO,     1,  8, FALSE)

SchedLists ==
    { <<>>,
      <<Q_a1>>,
      <<Q_a2, Q_b, Q_c>>,
      <<Q_a2, Q_bad, Q_b>> }

\* the resource_usage dict _update_process_states builds
ResourceUsage(proc) ==
    [cpu |-> proc.cpu_percent, memory |-> proc.memory_percent,
     io |-> IF proc.io_counters.present
            THEN proc.io_counters.read_bytes + proc.io_counters.write_bytes
            ELSE 0]

TrackedPids(states) == {states[i].pid : i \in 1..Len(states)}

IndexOf(states, pid) == CHOOSE i \in 1..Len(states) : states[i].pid = pid

\* the pids of a snapshot that _update_process_states reaches and that are new
NewPids(states, procs) ==
    {procs[i].pid : i \in {j \in 1..Len(procs) :
                             /\ \A k \in 1..j : procs[k].readable
                             /\ procs[j].pid \notin TrackedPids(states)}}

\* one turn of the loop of QuantumScheduler._update_process_states
UpdateProcessState(states, proc, timestamp, rand) ==
    IF proc.pid \notin TrackedPids(states)
    THEN Append(states, [pid |-> proc.pid, priority |-> Num(0),
                         quantum_state |-> rand[proc.pid],
                         last_update |-> timestamp,
                         resource_usage |-> ResourceUsage(proc)])
    ELSE [states EXCEPT ![IndexOf(states, proc.pid)] =
             [@ EXCEPT !.last_update = timestamp,
                       !.resource_usage = ResourceUsage(proc)]]

RECURSIVE UpdateProcessStates(_, _, _, _)
\* QuantumScheduler._update_process_states; an entry that cannot be read raises
UpdateProcessStates(states, procs, timestamp, rand) ==
    IF procs = <<>> THEN [states |-> states, raised |-> FALSE]
    ELSE IF ~Head(procs).readable THEN [states |-> states, raised |-> TRUE]
    ELSE UpdateProcessStates(UpdateProcessState(states, Head(procs), timestamp, rand),
                             Tail(procs), timestamp, rand)

\* a cadence check that lets every call through
SchedulerShouldOptimizeAlways == now - scheduler_last >= 0

\* QuantumScheduler._should_optimize
SchedulerShouldOptimize == now - scheduler_last >= RelaxationInterval

\* QuantumScheduler._calculate_interaction, times 3
CalculateInteraction(state1, state2) ==
    Abs(state1.resource_usage.cpu - state2.resource_usage.cpu)
    + Abs(state1.resource_usage.memory - state2.resource_usage.memory)
    + Abs(state1.resource_usage.io - state2.resource_usage.io)

\* the mirrored assignment hamiltonian[j, i] = interaction left out
HamiltonianEntryUpperOnly(states, i, j) ==
    IF i < j THEN CalculateInteraction(states[i], states[j]) ELSE 0

\* QuantumScheduler._create_hamiltonian: the entry [i, j] of the matrix, which
\* starts as zeros and gets hamiltonian[i, j] = hamiltonian[j, i] = interaction
\* for every i < j
HamiltonianEntry(states, i, j) ==
    IF i < j THEN CalculateInteraction(states[i], states[j])
    ELSE IF j < i THEN CalculateInteraction(states[j], states[i])
    ELSE 0

RECURSIVE HamiltonianRow(_, _, _)
HamiltonianRow(states, i, j) ==
    IF j > Len(states) THEN <<>>
    ELSE <<HamiltonianEntry(states, i, j)>> \o HamiltonianRow(states, i, j + 1)

RECURSIVE HamiltonianRows(_, _)
HamiltonianRows(states, i) ==
    IF i > Len(states) THEN <<>>
    ELSE <<HamiltonianRow(states, i, 1)>> \o HamiltonianRows(states, i + 1)

\* QuantumScheduler._create_hamiltonian
CreateHamiltonian(states) == HamiltonianRows(states, 1)

SumSquares(v) == v[1] * v[1] + v[2] * v[2] + v[3] * v[3] + v[4] * v[4]

\* the largest sum of squares whose norm is taken with two more digits
FineNormLimit == 200000

\* current_states[i] /= np.linalg.norm(current_states[i]); 0 / 0 is NaN.
\* The norm of a short vector is taken in hundredths of a unit, to keep the
\* quotient exact to the unit of a component.
Normalized(v) ==
    LET sumsq == SumSquares(v)
        fine == sumsq <= FineNormLimit
        norm == IF fine THEN Isqrt(sumsq * 10000) ELSE Isqrt(sumsq)
        scale == IF fine THEN 10000 ELSE 100
    IN  IF sumsq = 0 THEN NaNState
        ELSE <<RoundDiv(v[1] * scale, norm), RoundDiv(v[2] * scale, norm),
               RoundDiv(v[3] * scale, norm), RoundDiv(v[4] * scale, norm)>>

RECURSIVE Force(_, _, _, _)
\* the force on process i: the sum over j # i, from j on, of
\* hamiltonian[i, j] * (current_states[j] - current_states[i])
Force(hamiltonian, current, i, j) ==
    IF j > Len(current) THEN <<0, 0, 0, 0>>
    ELSE LET rest == Force(hamiltonian, current, i, j + 1)
             term(k) == rest[k] + hamiltonian[i][j] * (current[j][k] - current[i][k])
         IN  IF i = j THEN rest ELSE <<term(1), term(2), term(3), term(4)>>

\* one process in one annealing step: add force * temperature, normalize.
\* NaN in any state another state is read from makes the result NaN.
Evolve(hamiltonian, current, i, temp) ==
    IF current[i] = NaNState THEN NaNState
    ELSE IF \E j \in 1..Len(current) : current[j] = NaNState THEN NaNState
    ELSE LET force == Force(hamiltonian, current, i, 1)
             moved(k) == current[i][k] + RoundDiv(force[k] * temp, 3000)
         IN  Normalized(<<moved(1), moved(2), moved(3), moved(4)>>)

RECURSIVE AnnealingStep(_, _, _, _)
\* one annealing step: every process in turn, each reading the states already
\* moved in this step
AnnealingStep(hamiltonian, current, i, temp) ==
    IF i > Len(current) THEN current
    ELSE LET next == [current EXCEPT ![i] = Evolve(hamiltonian, current, i, temp)]
         IN  IF Len(next[i]) >= 0
             THEN AnnealingStep(hamiltonian, next, i + 1, temp)
             ELSE current

RECURSIVE Anneal(_, _, _, _)
\* the states after the given number of annealing steps (at least one), by
\* halves; when the first half comes back to the states it started from, the
\* second half of the same length does so too
Anneal(hamiltonian, current, steps, temp) ==
    IF steps = 1 THEN AnnealingStep(hamiltonian, current, 1, temp)
    ELSE LET half == steps \div 2
             mid == Anneal(hamiltonian, current, half, temp)
         IN  IF mid = current
             THEN IF steps - half = half THEN current
                  ELSE AnnealingStep(hamiltonian, current, 1, temp)
             ELSE Anneal(hamiltonian, mid, steps - half, temp)

RECURSIVE QuantumStates(_)
QuantumStates(states) ==
    IF states = <<>> THEN <<>>
    ELSE <<Head(states).quantum_state>> \o QuantumStates(Tail(states))

\* QuantumScheduler._quantum_annealing
QuantumAnnealing(hamiltonian, states, temp) ==
    Anneal(hamiltonian, QuantumStates(states), AnnealingSteps, temp)

\* QuantumScheduler._calculate_priority
CalculatePriority(quantum_state, resource_usage) ==
    IF quantum_state = NaNState THEN NaNPriority
    ELSE Num(7 * (quantum_state[1] + quantum_state[2] + quantum_state[3] + quantum_state[4])
             + 600 * (resource_usage.cpu + resource_usage.memory))

RECURSIVE Committed(_, _)
\* the loop of _optimize_scheduling over zip(states, optimized_states)
Committed(states, optimized) ==
    IF states = <<>> THEN <<>>
    ELSE <<[Head(states) EXCEPT
              !.quantum_state = Head(optimized),
              !.priority = CalculatePriority(Head(optimized), Head(states).resource_usage)]>>
         \o Committed(Tail(states), Tail(optimized))

\* the temperature as the force uses it, in thousandths
Thousandths(temp) == RoundDiv(temp, 1000)

\* the decay without its floor
CooledUnfloored(temp) == RoundDiv(temp * annealing_rate, 1000)

\* self.temperature = max(self.min_temperature, self.temperature * self.annealing_rate)
Cooled(temp) == Max(min_temperature, RoundDiv(temp * annealing_rate, 1000))

\* the pids of the snapshot the loop of _update_process_states got to
ReachedPids(procs) ==
    {procs[i].pid : i \in {j \in 1..Len(procs) : \A k \in 1..j : procs[k].readable}}

\* the count of snapshots in a row without each tracked pid, after a snapshot;
\* a snapshot that was not read to its end is no evidence of absence
Absent(states, procs, raised) ==
    [pid \in TrackedPids(states) |->
        IF pid \in ReachedPids(procs) THEN 0
        ELSE IF raised THEN qs_absent[pid]
        ELSE Min(MaxAbsent, qs_absent[pid] + 1)]

NoQuery == [called |-> FALSE, pid |-> 0, result |-> [type |-> "None"]]

\* QuantumScheduler.__init__
SchedulerInit ==
    /\ qs_absent = <<>>
    /\ qs_query = NoQuery
    /\ process_states = <<>>
    /\ scheduler_history = <<>>
    /\ scheduler_last = now
    /\ temperature = InitialTemperature
    /\ qs_path = "none"
    /\ qs_hamiltonian = <<>>

\* a record holding the priorities the states had before the commit
OptimizationRecordBefore(states, committed) ==
    [timestamp |-> now, temperature |-> temperature,
     priorities |-> [pid \in TrackedPids(states) |->
                        states[IndexOf(states, pid)].priority]]

\* the record _optimize_scheduling appends: it reads the ProcessState objects
\* after the commit loop wrote them
OptimizationRecord(states, committed) ==
    [timestamp |-> now, temperature |-> temperature,
     priorities |-> [pid \in TrackedPids(committed) |->
                        committed[IndexOf(committed, pid)].priority]]

\* QuantumScheduler.update(system_metrics)
SchedulerUpdateOn(procs) ==
    \E rand \in DrawsFor(NewPids(process_states, procs)) :
      LET loop == UpdateProcessStates(process_states, procs, now, rand)
      IN  /\ qs_absent' = Absent(loop.states, procs, loop.raised)
          /\ qs_query' = NoQuery
          /\ IF loop.raised
             THEN \* the except branch of update()
                  /\ process_states' = loop.states
                  /\ qs_path' = "raised"
                  /\ UNCHANGED <<scheduler_history, scheduler_last, temperature,
                                 qs_hamiltonian>>
             ELSE IF ~SchedulerShouldOptimize
             THEN /\ process_states' = loop.states
                  /\ qs_path' = "skipped"
                  /\ UNCHANGED <<scheduler_history, scheduler_last, temperature,
                                 qs_hamiltonian>>
             ELSE IF loop.states = <<>>
             THEN \* _optimize_scheduling returns: there is nothing to schedule
                  /\ process_states' = loop.states
                  /\ qs_path' = "empty"
                  /\ UNCHANGED <<scheduler_history, scheduler_last, temperature,
                                 qs_hamiltonian>>
             ELSE LET hamiltonian == CreateHamiltonian(loop.states)
                      optimized == QuantumAnnealing(hamiltonian, loop.states,
                                                    Thousandths(temperature))
                      committed == Committed(loop.states, optimized)
                  IN  /\ process_states' = committed
                      /\ scheduler_history' =
                             Append(scheduler_history,
                                    OptimizationRecord(loop.states, committed))
                      /\ temperature' = Cooled(temperature)
                      /\ scheduler_last' = now
                      /\ qs_path' = "optimized"
                      /\ qs_hamiltonian' = hamiltonian

SchedulerUpdate == \E procs \in SchedLists : SchedulerUpdateOn(procs)

SchedulerTick ==
    /\ now + SchedulerStep <= MaxSchedTime
    /\ now' = now + SchedulerStep
    /\ UNCHANGED <<sc_vars, cl_vars, qs_vars, qe_vars, ep_vars, cc_vars, qc_vars, pm_vars, us_vars>>

\* QuantumScheduler.get_process_priority(pid): self.process_states.get(pid, None),
\* an entry of the mapping from pids to ProcessState objects, or None
GetProcessPriority(pid) ==
    IF pid \in TrackedPids(process_states)
    THEN [type |-> "ProcessState",
          value |-> process_states[IndexOf(process_states, pid)]]
    ELSE [type |-> "None"]

SchedulerPids == {Q_a1.pid, Q_b.pid, Q_c.pid, UnknownPid}

\* a call of get_process_priority
SchedulerQuery ==
    \E pid \in SchedulerPids :
        /\ qs_query' = [called |-> TRUE, pid |-> pid, result |-> GetProcessPriority(pid)]
        /\ UNCHANGED <<process_states, scheduler_history, scheduler_last, temperature,
                       qs_path, qs_hamiltonian, qs_absent>>

\* update() and the clock
SchedulerSteps ==
    \/ SchedulerUpdate /\ UNCHANGED <<now, sc_vars, cl_vars, qe_vars, ep_vars, cc_vars, qc_vars, pm_vars, us_vars>>
    \/ SchedulerTick

\* get_process_priority only reads: the states after it are the states before
\* it, and a run is not followed further once the call was made
SchedulerNext ==
    \/ ~qs_query.called /\ SchedulerSteps
    \/ SchedulerQuery /\ UNCHANGED <<now, sc_vars, cl_vars, qe_vars, ep_vars, cc_vars, qc_vars, pm_vars, us_vars>>

(***************************************************************************)
(* The cooling of the temperature over many relaxation intervals: update() *)
(* is called with no process or with one, and in every interval at least   *)
(* one call completes an optimization.                                     *)
(***************************************************************************)
MaxCoolingTicks == 92

CoolingLists == { <<>>, <<Q_a1>> }

\* a relaxation interval passes
CoolingTick ==
    /\ now < MaxCoolingTicks * RelaxationInterval
    /\ scheduler_last = now
    /\ now' = now + RelaxationInterval
    /\ UNCHANGED <<sc_vars, cl_vars, qs_vars, qe_vars, ep_vars, cc_vars, qc_vars, pm_vars, us_vars>>

CoolingNext ==
    \/ (\E procs \in CoolingLists : SchedulerUpdateOn(procs))
          /\ UNCHANGED <<now, sc_vars, cl_vars, qe_vars, ep_vars, cc_vars, qc_vars, pm_vars, us_vars>>
    \/ CoolingTick

(***************************************************************************)
(* QuantumEntanglement (utils/quantum_utils.py).  A similarity is held in  *)
(* thousandths; coherence is held as the number of times it was multiplied *)
(* by the configured decay.                                                *)
(***************************************************************************)
Metrics(cpu, mem, io, complete) ==
    [cpu_percent |-> cpu, memory_percent |-> mem, io_percent |-> io,
     complete |-> complete]

\* the metrics dicts given to update_entanglement; complete is FALSE for a dict
\* that lacks a key, on which _calculate_similarity raises
MetricsPool ==
    { Metrics(50, 50, 0, TRUE), Metrics(90, 10, 0, TRUE), Metrics(10, 10, 10, FALSE) }

MetricsLists ==
    [1..NumProcesses -> MetricsPool] \cup {<<Metrics(50, 50, 0, TRUE)>>}

\* QuantumEntanglement._calculate_similarity (quantum_utils.py), for two complete dicts
CalculateSimilarity(metrics1, metrics2) ==
    Max(0, Min(1000, 1000 - (4 * Abs(metrics1.cpu_percent - metrics2.cpu_percent)
                            + 3 * Abs(metrics1.memory_percent - metrics2.memory_percent)
                            + 3 * Abs(metrics1.io_percent - metrics2.io_percent))))

\* entanglement_matrix[i, j] = similarity; entanglement_matrix[j, i] = similarity
SetPair(matrix, i, j, similarity) ==
    [matrix EXCEPT ![i][j] = similarity, ![j][i] = similarity]

RECURSIVE EntangleLoop(_, _, _, _)
\* the double loop of update_entanglement from the pair (i, j) on
EntangleLoop(matrix, process_metrics, i, j) ==
    IF i > NumProcesses THEN [matrix |-> matrix, raised |-> FALSE]
    ELSE IF j > NumProcesses
    THEN EntangleLoop(matrix, process_metrics, i + 1, i + 2)
    ELSE IF ~process_metrics[i].complete \/ ~process_metrics[j].complete
    THEN [matrix |-> matrix, raised |-> TRUE]
    ELSE EntangleLoop(SetPair(matrix, i, j,
                              CalculateSimilarity(process_metrics[i], process_metrics[j])),
                      process_metrics, i, j + 1)

\* np.zeros((num_processes, num_processes))
Zeros == [i \in 1..NumProcesses |-> [j \in 1..NumProcesses |-> 0]]

\* QuantumEntanglement.__init__
EntanglementInit ==
    /\ entanglement_matrix = Zeros
    /\ coherence = 0
    /\ qe_raised = FALSE

\* QuantumEntanglement.update_entanglement(process_metrics)
UpdateEntanglement ==
    /\ coherence < MaxDecays
    /\ \E process_metrics \in MetricsLists :
         IF Len(process_metrics) # NumProcesses
         THEN \* ValueError, logged and raised again
              /\ qe_raised' = TRUE
              /\ UNCHANGED <<entanglement_matrix, coherence>>
         ELSE LET loop == EntangleLoop(entanglement_matrix, process_metrics, 1, 2)
              IN  /\ entanglement_matrix' = loop.matrix
                  /\ coherence' = IF loop.raised THEN coherence ELSE coherence + 1
                  /\ qe_raised' = loop.raised

EntanglementNext ==
    UpdateEntanglement /\ UNCHANGED <<now, sc_vars, cl_vars, qs_vars, ep_vars, cc_vars, qc_vars, pm_vars, us_vars>>

\* the entanglement matrix was not used yet
EntanglementUnused == entanglement_matrix = Zeros /\ coherence = 0 /\ ~qe_raised

\* The scheduler and the entanglement matrix share no state, so the order of
\* their calls makes no difference: a run uses the scheduler and then the matrix.
CouplingNext ==
    \/ EntanglementUnused /\ SchedulerSteps
    \/ EntanglementNext

(***************************************************************************)
(* QuantumEntanglement (utils/quantum_entanglement.py).  Percentages are   *)
(* whole percents.  A similarity is the exact value of the cosine the code *)
(* computes, held as num / sqrt(den); the rounding of the last binary      *)
(* digit of a float is left out.                                           *)
(***************************************************************************)
EntanglementThresholdSquared == 49    \* similarity > 0.7: 0.7 * 0.7, in hundredths

NoPid == 0 - 1

\* a process dict; keys are the usage keys the dict holds
ProcessDict(pid, cpu, mem, io, keys) ==
    [pid |-> pid, cpu_percent |-> cpu, memory_percent |-> mem, io_rate |-> io,
     keys |-> keys]

UsageKeys == {"cpu_percent", "memory_percent", "io_rate"}

DictPool ==
    { ProcessDict(500, 90, 10, 0, UsageKeys),
      ProcessDict(700, 88, 12, 0, {"cpu_percent", "memory_percent"}),
      ProcessDict(400, 0, 10, 10, UsageKeys),
      ProcessDict(200, 10, 70, 0, UsageKeys),
      ProcessDict(NoPid, 0, 0, 0, UsageKeys) }

DictPids == {d.pid : d \in DictPool} \ {NoPid}

DictLists == UNION {[1..n -> DictPool] : n \in 0..MaxEntangled}

\* process.get(key, 0)
DictGet(process, key) == IF key \in process.keys THEN process[key] ELSE 0

\* the array _calculate_similarity builds of a process
MetricsOf(process) ==
    <<DictGet(process, "cpu_percent"), DictGet(process, "memory_percent"),
      DictGet(process, "io_rate")>>

\* the norm is taken without the np.any guard
NormSquaredUnguarded(metrics) ==
    metrics[1] * metrics[1] + metrics[2] * metrics[2] + metrics[3] * metrics[3]

\* the square of what the metrics are divided by:
\* metrics / np.linalg.norm(metrics) if np.any(metrics) else metrics
NormSquared(metrics) ==
    IF \E k \in 1..3 : metrics[k] # 0
    THEN metrics[1] * metrics[1] + metrics[2] * metrics[2] + metrics[3] * metrics[3]
    ELSE 1

\* QuantumEntanglement._calculate_similarity (quantum_entanglement.py):
\* max(0, np.dot(metrics1, metrics2)) of the normalized arrays, as num / sqrt(den);
\* a zero den is a division by a zero norm
CosineSimilarity(process1, process2) ==
    LET metrics1 == MetricsOf(process1)
        metrics2 == MetricsOf(process2)
        dot == metrics1[1] * metrics2[1] + metrics1[2] * metrics2[2]
               + metrics1[3] * metrics2[3]
    IN  [num |-> Max(0, dot), den |-> NormSquared(metrics1) * NormSquared(metrics2)]

\* the test is made with >= in place of >
ExceedsThresholdOrEqual(similarity) ==
    /\ similarity.num > 0
    /\ similarity.num * similarity.num >=
           EntanglementThresholdSquared * (similarity.den \div 100)
           + (EntanglementThresholdSquared * (similarity.den % 100) + 99) \div 100

\* similarity > 0.7, that is 100 * num^2 > 49 * den, within 32 bits
ExceedsThreshold(similarity) ==
    /\ similarity.num > 0
    /\ similarity.num * similarity.num >
           EntanglementThresholdSquared * (similarity.den \div 100)
           + (EntanglementThresholdSquared * (similarity.den % 100)) \div 100

RECURSIVE RelatedTo(_, _, _)
\* the inner loop of entangle_processes for the process at i, from j on
RelatedTo(processes, i, j) ==
    IF j > Len(processes) THEN <<>>
    ELSE IF i # j /\ ExceedsThreshold(CosineSimilarity(processes[i], processes[j]))
    THEN <<processes[j].pid>> \o RelatedTo(processes, i, j + 1)
    ELSE RelatedTo(processes, i, j + 1)

\* entangled[pid] = related
Assigned(entangled, pid, related) ==
    [q \in (DOMAIN entangled) \cup {pid} |-> IF q = pid THEN related ELSE entangled[q]]

RECURSIVE EntangleFrom(_, _, _)
\* the outer loop of entangle_processes from the process at i on
EntangleFrom(entangled, processes, i) ==
    IF i > Len(processes) THEN entangled
    ELSE LET related == RelatedTo(processes, i, 1)
         IN  IF processes[i].pid = NoPid \/ related = <<>>
             THEN EntangleFrom(entangled, processes, i + 1)
             ELSE EntangleFrom(Assigned(entangled, processes[i].pid, related),
                               processes, i + 1)

\* self.entangled_processes = {}
EmptyDict == [q \in {} |-> <<>>]

\* QuantumEntanglement.__init__ (quantum_entanglement.py)
EntangleInit ==
    /\ entangled_processes = EmptyDict
    /\ ep_processes = <<>>
    /\ ep_similarity = <<>>
    /\ ep_query = [called |-> FALSE, pid |-> NoPid, result |-> <<>>]
    /\ ep_calls = 0

\* QuantumEntanglement.entangle_processes(processes): the dict is cleared and filled
EntangleProcesses ==
    \E processes \in DictLists :
        /\ ep_calls < MaxEntangleCalls
        /\ ep_calls' = ep_calls + 1
        /\ entangled_processes' = EntangleFrom(EmptyDict, processes, 1)
        /\ ep_processes' = processes
        /\ ep_similarity' =
               [i \in 1..Len(processes) |-> [j \in 1..Len(processes) |->
                   IF i = j \/ processes[i].pid = NoPid THEN [called |-> FALSE]
                   ELSE [called |-> TRUE,
                         result |-> CosineSimilarity(processes[i], processes[j])]]]
        /\ ep_query' = [called |-> FALSE, pid |-> NoPid, result |-> <<>>]

\* self.entangled_processes.get(pid, [])
EntangledWith(pid) ==
    IF pid \in DOMAIN entangled_processes THEN entangled_processes[pid] ELSE <<>>

\* QuantumEntanglement.get_entangled_processes(pid)
GetEntangledProcesses ==
    \E pid \in DictPids :
        /\ ep_query' = [called |-> TRUE, pid |-> pid, result |-> EntangledWith(pid)]
        /\ UNCHANGED <<entangled_processes, ep_processes, ep_similarity, ep_calls>>

EntangleNext ==
    \/ EntangleProcesses /\ UNCHANGED <<now, sc_vars, cl_vars, qs_vars, qe_vars, cc_vars, qc_vars, pm_vars, us_vars>>
    \/ GetEntangledProcesses /\ UNCHANGED <<now, sc_vars, cl_vars, qs_vars, qe_vars, cc_vars, qc_vars, pm_vars, us_vars>>

(***************************************************************************)
(* QuantumScheduler(num_qubits) for any state dimension, and the update()  *)
(* calls made on the engine before the first relaxation interval elapses   *)
(* (_should_optimize() is false, so update() is _update_process_states).   *)
(***************************************************************************)
MaxQubits == 4

\* the dimensions a caller may pass
Dimensions == (0 - 1)..MaxQubits

\* np.random.rand(n): every component the same draw, in hundredths
RandComponents == {10, 50, 90}

ConstructLists == { <<500>>, <<500, 700>>, <<700, 800>>, <<800>> }

ConstructInit ==
    /\ qc_built = FALSE
    /\ qc_num_qubits = 0
    /\ qc_states = <<>>
    /\ qc_raised = FALSE

\* __init__ stores num_qubits as it is given and raises for no value of it
Construct ==
    /\ ~qc_built
    /\ \E n \in Dimensions : qc_num_qubits' = n
    /\ qc_built' = TRUE
    /\ qc_states' = <<>>
    /\ qc_raised' = FALSE

\* the positions of the pids that are not tracked yet
UntrackedIn(pids) == {i \in 1..Len(pids) : pids[i] \notin DOMAIN qc_states}

\* update() within the first relaxation interval: np.random.rand(num_qubits)
\* raises ValueError for a negative dimension, update() logs it and returns
EarlyUpdate ==
    /\ qc_built
    /\ \E pids \in ConstructLists, c \in RandComponents :
         IF UntrackedIn(pids) # {} /\ qc_num_qubits < 0
         THEN /\ qc_raised' = TRUE
              /\ UNCHANGED qc_states
         ELSE /\ qc_raised' = FALSE
              /\ qc_states' =
                    [pid \in DOMAIN qc_states \cup {pids[i] : i \in 1..Len(pids)} |->
                        IF pid \in DOMAIN qc_states THEN qc_states[pid]
                        ELSE [k \in 1..qc_num_qubits |-> c]]
    /\ UNCHANGED <<qc_built, qc_num_qubits>>

ConstructNext ==
    \/ Construct /\ UNCHANGED <<now, sc_vars, cl_vars, qs_vars, qe_vars, ep_vars, cc_vars, pm_vars, us_vars>>
    \/ EarlyUpdate /\ UNCHANGED <<now, sc_vars, cl_vars, qs_vars, qe_vars, ep_vars, cc_vars, pm_vars, us_vars>>

(***************************************************************************)
(* ProcessManager (utils/process_manager.py) and the processes it acts on. *)
(* A name is a sequence of characters, so that lower() and the substring   *)
(* test of _get_process_criticality are computed.                          *)
(***************************************************************************)
MaxNice == 0

\* str.lower() of one character
LowerChar(c) ==
    CASE c = "A" -> "a" [] c = "C" -> "c" [] c = "D" -> "d" [] c = "H" -> "h"
      [] c = "L" -> "l" [] c = "P" -> "p" [] c = "S" -> "s"
      [] OTHER -> c

\* str.lower()
LowerName(name) == [i \in 1..Len(name) |-> LowerChar(name[i])]

\* keyword in name
Contains(name, keyword) ==
    \E i \in 0..(Len(name) - Len(keyword)) :
        SubSeq(name, i + 1, i + Len(keyword)) = keyword

ContainsAny(name, keywords) == \E keyword \in keywords : Contains(name, keyword)

CriticalKeywords == { <<"p", "l", "c">>, <<"s", "c", "a", "d", "a">>,
                      <<"c", "o", "n", "t", "r", "o", "l">> }
HighKeywords == { <<"h", "m", "i">>,
                  <<"a", "u", "t", "o", "m", "a", "t", "i", "o", "n">>,
                  <<"r", "o", "b", "o", "t">> }
MediumKeywords == { <<"m", "o", "n", "i", "t", "o", "r">>,
                    <<"s", "e", "n", "s", "o", "r">> }

\* a criticality test that does not lower the name first
GetProcessCriticalityCaseSensitive(process_name) ==
    IF ContainsAny(process_name, CriticalKeywords) THEN "Critical"
    ELSE IF ContainsAny(process_name, HighKeywords) THEN "High"
    ELSE IF ContainsAny(process_name, MediumKeywords) THEN "Medium"
    ELSE "Low"

\* ProcessManager._get_process_criticality
GetProcessCriticality(process_name) ==
    IF ContainsAny(LowerName(process_name), CriticalKeywords) THEN "Critical"
    ELSE IF ContainsAny(LowerName(process_name), HighKeywords) THEN "High"
    ELSE IF ContainsAny(LowerName(process_name), MediumKeywords) THEN "Medium"
    ELSE "Low"

OsProcess(name, nice, cpu) ==
    [name |-> name, nice |-> nice, status |-> "running", cpu_percent |-> cpu]

\* the processes of the machine: PLC.x, myScada, Hmi, pl_c
OsProcesses ==
    (1100 :> OsProcess(<<"P", "L", "C", ".", "x">>, 0, 90))
    @@ (1200 :> OsProcess(<<"m", "y", "S", "c", "a", "d", "a">>, 0 - 1, 40))
    @@ (1300 :> OsProcess(<<"H", "m", "i">>, 0, 85))
    @@ (1500 :> OsProcess(<<"p", "l", "_", "c">>, 0, 65))

\* a pid no process has
NoSuchPid == 1999

ManagedPids == DOMAIN OsProcesses \cup {NoSuchPid}

NoCall == [op |-> "none", pid |-> 0, returned |-> "None"]

ManagerInit ==
    /\ pm_procs = OsProcesses
    /\ pm_result = NoCall

\* psutil.Process(pid) raises NoSuchProcess for a pid that is not running
Exists(pid) ==
    pid \in DOMAIN pm_procs /\ pm_procs[pid].status \in {"running", "suspended"}

Called(op, pid, returned) == [op |-> op, pid |-> pid, returned |-> returned]

\* the nice value optimize_process sets
OptimizedPriority(criticality, current_priority, optimization_level) ==
    IF criticality = "High" THEN Max(0 - 10, current_priority - 1)
    ELSE IF optimization_level = "aggressive" THEN Max(0 - 20, current_priority - 5)
    ELSE Max(0 - 10, current_priority - 2)

\* ProcessManager.optimize_process(pid, optimization_level)
OptimizeProcessCall ==
    \E pid \in ManagedPids, optimization_level \in {"standard", "aggressive"} :
        IF ~Exists(pid)
        THEN /\ pm_result' = Called("optimize_process", pid, "False")
             /\ UNCHANGED pm_procs
        ELSE LET criticality == GetProcessCriticality(pm_procs[pid].name)
             IN  /\ pm_result' = Called("optimize_process", pid, "True")
                 /\ pm_procs' =
                       IF criticality = "Critical" THEN pm_procs
                       ELSE [pm_procs EXCEPT ![pid].nice =
                               OptimizedPriority(criticality, @, optimization_level)]

\* the nice value optimize_cpu_usage sets for a process it does not skip
CpuAdjusted(proc) ==
    IF proc.cpu_percent > 80 THEN proc.nice + 5
    ELSE IF proc.cpu_percent > 60 THEN proc.nice + 3
    ELSE proc.nice

\* ProcessManager.optimize_cpu_usage()
ManagerOptimizeCpuUsage ==
    /\ \A pid \in DOMAIN pm_procs : pm_procs[pid].nice <= MaxNice
    /\ pm_result' = Called("optimize_cpu_usage", 0, "None")
    /\ pm_procs' =
          [pid \in DOMAIN pm_procs |->
              IF /\ Exists(pid)
                 /\ pm_procs[pid].cpu_percent > 50
                 /\ GetProcessCriticality(pm_procs[pid].name) # "Critical"
              THEN [pm_procs[pid] EXCEPT !.nice = CpuAdjusted(pm_procs[pid])]
              ELSE pm_procs[pid]]

\* terminate_process, kill_process and suspend_process: the same safety check,
\* then proc.terminate(), proc.kill() or proc.suspend()
Guarded(op, status) ==
    \E pid \in ManagedPids :
        IF ~Exists(pid)
        THEN /\ pm_result' = Called(op, pid, "False")
             /\ UNCHANGED pm_procs
        ELSE IF GetProcessCriticality(pm_procs[pid].name) = "Critical"
        THEN /\ pm_result' = Called(op, pid, "False")
             /\ UNCHANGED pm_procs
        ELSE /\ pm_result' = Called(op, pid, "True")
             /\ pm_procs' = [pm_procs EXCEPT ![pid].status = status]

TerminateProcess == Guarded("terminate_process", "terminated")

KillProcess == Guarded("kill_process", "killed")

SuspendProcess == Guarded("suspend_process", "suspended")

\* ProcessManager.resume_process(pid)
ResumeProcess ==
    \E pid \in ManagedPids :
        IF ~Exists(pid)
        THEN /\ pm_result' = Called("resume_process", pid, "False")
             /\ UNCHANGED pm_procs
        ELSE /\ pm_result' = Called("resume_process", pid, "True")
             /\ pm_procs' = [pm_procs EXCEPT ![pid].status = "running"]

ManagerNext ==
    \/ OptimizeProcessCall /\ UNCHANGED <<now, sc_vars, cl_vars, qs_vars, qe_vars, ep_vars, cc_vars, qc_vars, us_vars>>
    \/ ManagerOptimizeCpuUsage /\ UNCHANGED <<now, sc_vars, cl_vars, qs_vars, qe_vars, ep_vars, cc_vars, qc_vars, us_vars>>
    \/ TerminateProcess /\ UNCHANGED <<now, sc_vars, cl_vars, qs_vars, qe_vars, ep_vars, cc_vars, qc_vars, us_vars>>
    \/ KillProcess /\ UNCHANGED <<now, sc_vars, cl_vars, qs_vars, qe_vars, ep_vars, cc_vars, qc_vars, us_vars>>
    \/ SuspendProcess /\ UNCHANGED <<now, sc_vars, cl_vars, qs_vars, qe_vars, ep_vars, cc_vars, qc_vars, us_vars>>
    \/ ResumeProcess /\ UNCHANGED <<now, sc_vars, cl_vars, qs_vars, qe_vars, ep_vars, cc_vars, qc_vars, us_vars>>

(***************************************************************************)
(* QuantumScheduler (utils/quantum_scheduler.py).  A number is held with   *)
(* its Python type and twice its value, so that 2.5 and 50.5 are numbers   *)
(* of the model; a percentage of a process is a whole percent, or None.    *)
(***************************************************************************)
IntArg(n) == [kind |-> "int", twice |-> 2 * n]
FloatArg(twice) == [kind |-> "float", twice |-> twice]
StrArg == [kind |-> "str", twice |-> 0]

\* the arguments callers pass to the setters: -1, 0, 50, 50.5, 100, 101, a string
LevelArgs == { IntArg(0 - 1), IntArg(0), IntArg(50), FloatArg(101), IntArg(100),
               IntArg(101), StrArg }

ModeArgs == { "Standard", "Aggressive", "Conservative", "aggressive", "Turbo" }

\* -1, 0, 1, 2, 2.5, a string
LimitArgs == { IntArg(0 - 1), IntArg(0), IntArg(1), IntArg(2), FloatArg(5), StrArg }

valid_modes == { "Standard", "Aggressive", "Conservative" }

\* a value of a process dict that is None
NoneValue == 0 - 1

ProcessEntry(pid, cpu, mem) == [pid |-> pid, cpu_percent |-> cpu, memory_percent |-> mem]

D_mid  == ProcessEntry(1, 50, 25)
D_high == ProcessEntry(2, 75, 25)
D_low  == ProcessEntry(3, 25, 0)
D_tie  == ProcessEntry(5, 25, 50)
D_none == ProcessEntry(4, NoneValue, 25)

OptimizeLists ==
    { <<>>, <<D_mid, D_high, D_low>>, <<D_low, D_tie, D_mid>>, <<D_mid, D_none, D_high>> }

NoResult == [op |-> "none", arg |-> StrArg, raised |-> FALSE, returned |-> <<>>]

\* QuantumScheduler.__init__
UtilsSchedulerInit ==
    /\ entanglement_level = IntArg(50)
    /\ optimization_mode = "Standard"
    /\ process_limit = IntArg(10)
    /\ us_result = NoResult

\* a comparison of a number with a str raises TypeError
Comparable(arg) == arg.kind # "str"

\* 0 <= level <= 100
LevelAccepted(level) == 0 <= level.twice /\ level.twice <= 200

\* QuantumScheduler.set_entanglement_level(level)
SetEntanglementLevel ==
    \E level \in LevelArgs :
        /\ entanglement_level' =
              IF Comparable(level) /\ LevelAccepted(level) THEN level
              ELSE entanglement_level
        /\ us_result' = [op |-> "set_entanglement_level", arg |-> level,
                         raised |-> ~Comparable(level), returned |-> <<>>]
        /\ UNCHANGED <<optimization_mode, process_limit>>

\* QuantumScheduler.set_optimization_mode(mode)
SetOptimizationMode ==
    \E mode \in ModeArgs :
        /\ optimization_mode' = IF mode \in valid_modes THEN mode ELSE optimization_mode
        /\ us_result' = [op |-> "set_optimization_mode", arg |-> mode,
                         raised |-> FALSE, returned |-> <<>>]
        /\ UNCHANGED <<entanglement_level, process_limit>>

\* QuantumScheduler.set_process_limit(limit)
SetProcessLimit ==
    \E limit \in LimitArgs :
        /\ process_limit' =
              IF Comparable(limit) /\ limit.twice > 0 THEN limit ELSE process_limit
        /\ us_result' = [op |-> "set_process_limit", arg |-> limit,
                         raised |-> ~Comparable(limit), returned |-> <<>>]
        /\ UNCHANGED <<entanglement_level, optimization_mode>>

\* p.get('cpu_percent', 0) + p.get('memory_percent', 0)
Load(p) == p.cpu_percent + p.memory_percent

\* None + a number raises TypeError
LoadRaises(p) == p.cpu_percent = NoneValue \/ p.memory_percent = NoneValue

RECURSIVE InsertByLoad(_, _)
\* x put into the descending sequence s after every element whose load is >= its own
InsertByLoad(s, x) ==
    IF s = <<>> THEN <<x>>
    ELSE IF Load(Head(s)) >= Load(x) THEN <<Head(s)>> \o InsertByLoad(Tail(s), x)
    ELSE <<x>> \o s

RECURSIVE SortedByLoad(_)
\* sorted(processes, key=..., reverse=True): stable, highest load first
SortedByLoad(s) ==
    IF s = <<>> THEN <<>>
    ELSE InsertByLoad(SortedByLoad(SubSeq(s, 1, Len(s) - 1)), s[Len(s)])

\* np.sin(np.pi * entanglement_level / 100) ** 2, in hundred-thousandths, for
\* the levels of the model: 0, 50, 50.5 and 100
QuantumFactor(level) ==
    CASE level.twice = 100 -> 100000
      [] level.twice = 101 -> 99975
      [] OTHER -> 0

\* int(score * m) for m = 1.5, 0.5 and 1, the score being
\* (cpu_score + mem_score + io_score) * quantum_factor * 100
PriorityAdjustment(p, level, mode) ==
    LET thirds == IF mode = "Aggressive" THEN 3
                  ELSE IF mode = "Conservative" THEN 1 ELSE 2
    IN  (Load(p) * thirds * QuantumFactor(level)) \div 200000

\* QuantumScheduler.optimize_processes(processes): a TypeError of the sort key
\* or of the slice ends in the except branch, which returns processes
OptimizeProcesses ==
    \E processes \in OptimizeLists :
        LET raises == \/ \E i \in 1..Len(processes) : LoadRaises(processes[i])
                      \/ process_limit.kind # "int"
            sorted_processes == SortedByLoad(processes)
            taken == SubSeq(sorted_processes, 1,
                            Min(process_limit.twice \div 2, Len(sorted_processes)))
            optimized == [i \in 1..Len(taken) |->
                            [pid |-> taken[i].pid,
                             priority_adjustment |->
                                 PriorityAdjustment(taken[i], entanglement_level,
                                                    optimization_mode)]]
            unchanged == [i \in 1..Len(processes) |->
                            [pid |-> processes[i].pid,
                             priority_adjustment |-> NoneValue]]
        IN  /\ us_result' = [op |-> "optimize_processes", arg |-> processes,
                             raised |-> FALSE,
                             returned |-> IF raises THEN unchanged ELSE optimized]
            /\ UNCHANGED <<entanglement_level, optimization_mode, process_limit>>

UtilsSchedulerNext ==
    \/ SetEntanglementLevel /\ UNCHANGED <<now, sc_vars, cl_vars, qs_vars, qe_vars, ep_vars, cc_vars, qc_vars, pm_vars>>
    \/ SetOptimizationMode /\ UNCHANGED <<now, sc_vars, cl_vars, qs_vars, qe_vars, ep_vars, cc_vars, qc_vars, pm_vars>>
    \/ SetProcessLimit /\ UNCHANGED <<now, sc_vars, cl_vars, qs_vars, qe_vars, ep_vars, cc_vars, qc_vars, pm_vars>>
    \/ OptimizeProcesses /\ UNCHANGED <<now, sc_vars, cl_vars, qs_vars, qe_vars, ep_vars, cc_vars, qc_vars, pm_vars>>

Init ==
    /\ now = 0
    /\ SynergyInit
    /\ LearnerInit
    /\ SchedulerInit
    /\ EntanglementInit
    /\ EntangleInit
    /\ ConcurrentInit
    /\ ConstructInit
    /\ ManagerInit
    /\ UtilsSchedulerInit

SpecSynergy == Init /\ [][SynergyNext]_vars

SpecLearner == Init /\ [][LearnerNext]_vars

SpecScheduler == Init /\ [][SchedulerNext]_vars

SpecCoupling == Init /\ [][CouplingNext]_vars

SpecEntangle == Init /\ [][EntangleNext]_vars

SpecConcurrent == Init /\ [][ConcurrentNext]_vars

SpecCooling == Init /\ [][CoolingNext]_vars

SpecManager == Init /\ [][ManagerNext]_vars

SpecUtilsScheduler == Init /\ [][UtilsSchedulerNext]_vars

SpecConstruct == Init /\ [][ConstructNext]_vars

(***************************************************************************)
(* Properties of SynergyCore, checked under SpecSynergy.                   *)
(***************************************************************************)
Range(s) == {s[i] : i \in 1..Len(s)}

PoolProcs == UNION {Range(l) : l \in ProcessLists}

\* the pids of the processes the eligibility filter excludes
ExcludedPids ==
    {p.pid : p \in {q \in PoolProcs :
                      \/ q.pid < 100
                      \/ q.name # NoneName
                         /\ Lower(q.name) \in {"system", "svchost.exe", "explorer.exe"}}}

\* a step of the model that is a call of process(): the clock stands still
IsProcessCall == now' = now

RECURSIVE PickAt(_, _, _)
\* the elements of s at the positions of the set idx that are >= from, in order
PickAt(s, idx, from) ==
    IF from > Len(s) THEN <<>>
    ELSE (IF from \in idx THEN <<s[from]>> ELSE <<>>) \o PickAt(s, idx, from + 1)

\* C1: no generated, executed or recorded action of process() has the pid of an
\* excluded process (pid below 100, or lower-cased name in the protected set), and
\* the control interface never lowers the priority class of such a process.
C1_NoActionOnExcluded ==
    /\ \A i \in 1..Len(sc_actions) : sc_actions[i].pid \notin ExcludedPids
    /\ \A i \in 1..Len(sc_attempted) : sc_attempted[i].pid \notin ExcludedPids
    /\ \A i \in 1..Len(optimization_history) :
         optimization_history[i].pid \notin ExcludedPids
    /\ lowered \cap ExcludedPids = {}

\* C2: in every call of process(), the candidates handed to _apply_optimization
\* are exactly the generated candidates with priority >= 0.7, in order; nothing
\* below 0.7 is ever recorded.
C2_ThresholdFilter ==
    /\ sc_attempted =
         PickAt(sc_actions, {i \in 1..Len(sc_actions) : sc_actions[i].priority >= 7000}, 1)
    /\ \A i \in 1..Len(optimization_history) : optimization_history[i].priority >= 7000

\* C2 witness: a batch with a thread candidate at exactly 0.7 that was executed and
\* a cpu candidate at 0.6 (a process at 60 % cpu) that was not.
C2_Witness ==
    /\ sc_path = "batch"
    /\ \E i \in 1..Len(sc_attempted) :
         /\ sc_attempted[i].action_type = "thread_optimization"
         /\ sc_attempted[i].priority = 7000
    /\ \E i \in 1..Len(sc_actions) :
         /\ sc_actions[i].action_type = "cpu_optimization"
         /\ sc_actions[i].priority = 6000
         /\ \A j \in 1..Len(sc_attempted) : sc_attempted[j] # sc_actions[i]

\* C3 as stated: a call of process() less than the cooldown after the call before
\* it does not make a second batch, generates no candidates, executes nothing,
\* leaves the history and last_optimization unchanged and returns an empty list.
C3_SecondCallReturnsEmptyList ==
    [][ (IsProcessCall /\ sc_path # "none" /\ now - sc_called_at < Cooldown)
        => /\ ~(sc_path = "batch" /\ sc_path' = "batch")
           /\ sc_actions' = <<>>
           /\ sc_attempted' = <<>>
           /\ optimization_history' = optimization_history
           /\ last_optimization' = last_optimization
           /\ sc_returned' = "EmptyList" ]_vars

\* C3 amended: a call of process() less than the cooldown after a call that
\* completed a batch is skipped: it generates no candidates, executes nothing,
\* leaves the history, the lowered processes and last_optimization unchanged and
\* returns None; so of two consecutive calls less than the cooldown apart at most
\* one executes a batch.
C3_SecondCallIsNoOp ==
    [][ (IsProcessCall /\ sc_path # "none" /\ now - sc_called_at < Cooldown)
        => /\ ~(sc_path = "batch" /\ sc_path' = "batch")
           /\ sc_path = "batch"
              => /\ sc_path' = "skipped"
                 /\ sc_actions' = <<>>
                 /\ sc_attempted' = <<>>
                 /\ optimization_history' = optimization_history
                 /\ lowered' = lowered
                 /\ last_optimization' = last_optimization
                 /\ sc_returned' = "None" ]_vars

\* C3 witness: a call was skipped less than the cooldown after a batch that
\* recorded an action.
C3_Witness ==
    /\ sc_path = "skipped"
    /\ optimization_history # <<>>
    /\ sc_called_at - last_optimization < Cooldown
    /\ sc_returned = "None"

\* C5 as stated: every action handed to _apply_optimization in a batch is appended
\* to the history, whether applying it succeeded or not.
C5_RecordedUnconditionally ==
    [][ (IsProcessCall /\ sc_path' = "batch")
        => optimization_history' = optimization_history \o sc_attempted' ]_vars

\* C5 amended: an action handed to _apply_optimization is appended to the history
\* if and only if every control-interface call for it succeeded; a batch appends
\* exactly those actions, in order, and changes no earlier entry.
C5_RecordedIffApplied ==
    [][ (IsProcessCall /\ sc_path' = "batch")
        => optimization_history' =
             optimization_history
             \o PickAt(sc_attempted',
                       {i \in 1..Len(sc_attempted') : sc_outcomes'[i] = "ok"}, 1) ]_vars

\* C5 witness: a batch in which one action failed and another was applied.
C5_Witness ==
    /\ sc_path = "batch"
    /\ \E i, j \in 1..Len(sc_attempted) :
         /\ sc_outcomes[i] # "ok"
         /\ sc_outcomes[j] = "ok"
         /\ \E k \in 1..Len(optimization_history) :
              optimization_history[k] = sc_attempted[j]

\* C6: a failure of _apply_optimization for one action of a batch does not stop
\* the batch: every candidate with priority >= 0.7 is attempted, those after the
\* failed one included, and the batch ends by setting last_optimization.
C6_FailureDoesNotBlockBatch ==
    [][ (IsProcessCall /\ sc_path' # "skipped" /\ sc_attempted' # <<>>)
        => /\ Len(sc_attempted') =
                Cardinality({i \in 1..Len(sc_actions') : sc_actions'[i].priority >= 7000})
           /\ Len(sc_outcomes') = Len(sc_attempted')
           /\ sc_path' = "batch"
           /\ last_optimization' = now ]_vars

\* C6 witness: a completed batch whose first action failed and whose later action
\* was applied and recorded.
C6_Witness ==
    /\ sc_path = "batch"
    /\ last_optimization = now
    /\ Len(sc_attempted) >= 2
    /\ sc_outcomes[1] # "ok"
    /\ sc_outcomes[Len(sc_outcomes)] = "ok"
    /\ optimization_history # <<>>
    /\ optimization_history[Len(optimization_history)] = sc_attempted[Len(sc_attempted)]

\* C22: the history only grows by appending: what it held stays as a prefix,
\* and every entry a call appends is a candidate generated in that call, with
\* priority >= 0.7 and for a process the eligibility filter does not exclude.
C22_AppendOnlyHistory ==
    [][ /\ Len(optimization_history') >= Len(optimization_history)
        /\ SubSeq(optimization_history', 1, Len(optimization_history))
              = optimization_history
        /\ \A i \in (Len(optimization_history) + 1)..Len(optimization_history') :
              /\ optimization_history'[i] \in Range(sc_actions')
              /\ optimization_history'[i].priority >= 7000
              /\ optimization_history'[i].pid \notin ExcludedPids ]_vars

(***************************************************************************)
(* Properties of ContinualLearner, checked under SpecLearner.              *)
(***************************************************************************)
\* a step of the model that is a call of ContinualLearner.update
IsLearnerUpdate == cl_time' # cl_time

\* C7: predict_process_metrics(pid) returns None whenever the pid is unknown or
\* its window holds fewer than sequence_length (10) samples, and returns a
\* prediction only when the window is full.
C7_PredictNeedsFullWindow ==
    cl_prediction.called =>
        /\ (~cl_prediction.known \/ cl_prediction.window < 10)
              => cl_prediction.result = "None"
        /\ cl_prediction.result = "Prediction" => cl_prediction.window = 10

\* C8: a drift event resets every tracked pid's predictor at once (window cleared,
\* model and optimizer re-created), and after it predict_process_metrics(pid)
\* returns None for every pid until 10 fresh samples for that pid were pushed.
C8_NoPredictionUntilRefilled ==
    /\ cl_drift = "drift" =>
         \A pid \in DOMAIN process_predictors :
            /\ feature_history[pid] = <<>>
            /\ process_predictors[pid].trained = 0
            /\ optimizers[pid].steps = 0
    /\ (cl_prediction.called /\ cl_prediction.drifted /\ cl_prediction.fresh < 10)
          => cl_prediction.result = "None"

C4_PriorityInUnitInterval ==
    \A i \in 1..Len(process_states) :
        /\ ~process_states[i].priority.nan
        /\ process_states[i].priority.value >= 0
        /\ process_states[i].priority.value <= 4000

SymmetricZeroDiagonal(matrix) ==
    \A i \in 1..Len(matrix) :
        /\ matrix[i][i] = 0
        /\ \A j \in 1..Len(matrix) : matrix[i][j] = matrix[j][i]

\* C10: the matrix _create_hamiltonian built in the last tick, the matrix it
\* builds for the processes tracked now, and the entanglement matrix of
\* quantum_utils are symmetric and have a zero diagonal.
C10_SymmetricZeroDiagonal ==
    /\ SymmetricZeroDiagonal(qs_hamiltonian)
    /\ SymmetricZeroDiagonal(CreateHamiltonian(process_states))
    /\ SymmetricZeroDiagonal(entanglement_matrix)

\* a tick built a 3 x 3 hamiltonian with interactions and a whole
\* update_entanglement call stored a similarity
C10_Witness ==
    /\ qs_path = "optimized"
    /\ Len(qs_hamiltonian) = 3
    /\ qs_hamiltonian[1][2] > 0
    /\ qs_hamiltonian[2][3] > 0
    /\ coherence > 0
    /\ entanglement_matrix[1][2] > 0

(***************************************************************************)
(* Properties of QuantumEntanglement (quantum_entanglement.py), checked    *)
(* under SpecEntangle.                                                     *)
(***************************************************************************)
ZeroMetrics == <<0, 0, 0>>

\* the positions (i, j) at which the last entangle_processes call computed a similarity
ComputedPairs ==
    {p \in (1..Len(ep_processes)) \X (1..Len(ep_processes)) :
        ep_similarity[p[1]][p[2]].called}

\* C11: every similarity _calculate_similarity returned is in [0, 1] and was
\* computed without a division by a zero norm; it is 1.0 for two identical
\* usage vectors that are not all-zero, and 0 when either vector is all-zero.
C11_SimilarityRange ==
    \A p \in ComputedPairs :
        LET r == ep_similarity[p[1]][p[2]].result
            metrics1 == MetricsOf(ep_processes[p[1]])
            metrics2 == MetricsOf(ep_processes[p[2]])
        IN  /\ r.den > 0
            /\ r.num >= 0
            /\ r.num * r.num <= r.den
            /\ (metrics1 = metrics2 /\ metrics1 # ZeroMetrics) => r.num * r.num = r.den
            /\ (metrics1 = ZeroMetrics \/ metrics2 = ZeroMetrics) => r.num = 0

\* one call compared a process with an identical one and with an all-zero one
C11_Witness ==
    /\ \E p \in ComputedPairs :
          /\ MetricsOf(ep_processes[p[1]]) = MetricsOf(ep_processes[p[2]])
          /\ MetricsOf(ep_processes[p[1]]) # ZeroMetrics
    /\ \E p \in ComputedPairs : MetricsOf(ep_processes[p[2]]) = ZeroMetrics

InSeq(x, seq) == \E k \in 1..Len(seq) : seq[k] = x

\* the processes of the last list all have a pid, and no two the same
DistinctPids ==
    /\ \A i \in 1..Len(ep_processes) : ep_processes[i].pid # NoPid
    /\ \A i, j \in 1..Len(ep_processes) :
          ep_processes[i].pid = ep_processes[j].pid => i = j

\* num / sqrt(den) > 0.7
Above70(r) ==
    /\ r.num > 0
    /\ r.num * r.num > 49 * (r.den \div 100) + (49 * (r.den % 100)) \div 100

\* C12: after entangle_processes on a list with distinct pids, b is in the
\* result of get_entangled_processes(a) iff the similarity of a and b exceeds
\* 0.7, iff a is in the result for b; no pid is related to itself, and a pid
\* outside the list is in no result and has an empty result.
C12_EntangledIffSimilar ==
    (ep_calls > 0 /\ DistinctPids) =>
        /\ \A i, j \in 1..Len(ep_processes) :
              LET a == ep_processes[i].pid
                  b == ep_processes[j].pid
              IN  IF i = j THEN ~InSeq(a, EntangledWith(a))
                  ELSE /\ InSeq(b, EntangledWith(a)) <=> Above70(ep_similarity[i][j].result)
                       /\ InSeq(b, EntangledWith(a)) <=> InSeq(a, EntangledWith(b))
        /\ \A pid \in DictPids \ {ep_processes[i].pid : i \in 1..Len(ep_processes)} :
              /\ EntangledWith(pid) = <<>>
              /\ \A q \in DictPids : ~InSeq(pid, EntangledWith(q))
        /\ ep_query.called => ep_query.result = EntangledWith(ep_query.pid)

\* a second call was given three processes, two of them similar and one not,
\* and get_entangled_processes was asked about one of the similar ones
C12_Witness ==
    /\ ep_calls = 2
    /\ DistinctPids
    /\ Len(ep_processes) = 3
    /\ ep_query.called
    /\ ep_query.pid = 500
    /\ ep_query.result = <<700>>

(***************************************************************************)
(* Properties of the candidates SynergyCore generates, checked under       *)
(* SpecSynergy.                                                            *)
(***************************************************************************)

\* the positions of the candidates of the last call with this type and pid
ActionsOf(type, pid) ==
    {i \in 1..Len(sc_actions) :
        sc_actions[i].action_type = type /\ sc_actions[i].pid = pid}

\* the process at k is among the five with the highest usage of the resource,
\* the earlier of two equal ones first
AmongTopFive(procs, k, resource) ==
    Cardinality({j \in 1..Len(procs) :
                    \/ UsageOf(procs[j], resource) > UsageOf(procs[k], resource)
                    \/ UsageOf(procs[j], resource) = UsageOf(procs[k], resource) /\ j < k})
        < 5

\* the candidates for one resource are as C13 says
UsageActionsAsSpecified(resource, type, aggregate, threshold) ==
    \A k \in 1..Len(sc_metrics.processes) :
        LET proc == sc_metrics.processes[k]
            own == UsageOf(proc, resource)
            generated == ActionsOf(type, proc.pid)
        IN  /\ Cardinality(generated) <= 1
            /\ generated # {} <=> /\ aggregate > threshold
                                  /\ AmongTopFive(sc_metrics.processes, k, resource)
                                  /\ own > 5000
            /\ \A i \in generated :
                  /\ sc_actions[i].priority = own
                  /\ sc_actions[i].parameters.priority_class = "BELOW_NORMAL"

\* C13: in a call that analyzes a snapshot, a cpu (memory) action is generated
\* for a process iff the aggregate cpu (memory) percent exceeds 80 (85), the
\* process is among the five highest consumers and its own percent exceeds 50;
\* the priority of the action is that percent / 100 and its class is lowered.
C13_UsageActions ==
    sc_path = "batch" =>
        /\ UsageActionsAsSpecified("cpu", "cpu_optimization",
                                   sc_metrics.cpu_percent, 8000)
        /\ UsageActionsAsSpecified("memory", "memory_optimization",
                                   sc_metrics.memory_percent, 8500)

\* aggregate cpu 95 %, eight processes: pid 500 at 92 % gets a cpu action with
\* priority 0.92, pid 700 at 55 % is the sixth consumer and gets none
C13_Witness ==
    /\ sc_path = "batch"
    /\ sc_metrics.cpu_percent = 9500
    /\ Len(sc_metrics.processes) = 8
    /\ \E i \in ActionsOf("cpu_optimization", 500) : sc_actions[i].priority = 9200
    /\ ActionsOf("cpu_optimization", 700) = {}

StoredPriority(pid) ==
    IF pid \in TrackedPids(process_states)
    THEN [type |-> "float",
          value |-> process_states[IndexOf(process_states, pid)].priority]
    ELSE [type |-> "None"]

\* C15: get_process_priority(pid) returns the scalar priority stored for a
\* tracked pid and None for a pid that was never seen.
C15_ReturnsStoredPriority ==
    qs_query.called => qs_query.result = StoredPriority(qs_query.pid)

\* C16: a pid that was absent from M consecutive snapshots (M = MaxAbsent here)
\* is no longer tracked.
C16_AbsentPidsEvicted ==
    \A pid \in TrackedPids(process_states) : qs_absent[pid] < MaxAbsent

\* the sum of squares of a unit vector held in hundredths, and how far the
\* rounding of four components to hundredths can move it
UnitSquared == 100 * 100
RoundingSlack == 3 * 100

\* C17: after a completed relaxation pass every committed state vector is a
\* vector of numbers of unit L2 norm (to the resolution of the components).
C17_UnitNormAfterPass ==
    qs_path = "optimized" =>
        \A i \in 1..Len(process_states) :
            /\ process_states[i].quantum_state # NaNState
            /\ Abs(SumSquares(process_states[i].quantum_state) - UnitSquared)
                  <= RoundingSlack

\* C19: an update() that raises partway leaves the tracked processes, the
\* temperature and the optimization log as they were before the call.
C19_RaisedTickCommitsNothing ==
    [][ (now' = now /\ ~qs_query'.called /\ qs_path' = "raised")
           => /\ process_states' = process_states
              /\ temperature' = temperature
              /\ scheduler_history' = scheduler_history ]_vars

(***************************************************************************)
(* The feature windows of ContinualLearner, checked under SpecLearner.     *)
(***************************************************************************)

\* the last n entries of s, all of them when it has fewer
LastOf(s, n) == SubSeq(s, Len(s) - Min(Len(s), n) + 1, Len(s))

\* the samples pushed for pid since its last reset, before the step
FreshBefore(pid) == IF pid \in DOMAIN cl_fresh THEN cl_fresh[pid] ELSE 0

\* the window of pid before the step, empty when it had none
WindowBefore(pid) == IF pid \in DOMAIN feature_history THEN feature_history[pid] ELSE <<>>

\* C24: a window never holds more than W = 10 entries; it holds the last
\* min(n, W) of the n samples pushed for its pid since the last reset, oldest
\* first: a push appends the new sample and drops the oldest entry of a full
\* window, a reset empties it, and nothing else changes it.
C24_WindowHoldsLastSamples ==
    /\ [](\A pid \in DOMAIN feature_history :
            /\ Len(feature_history[pid]) <= sequence_length
            /\ Len(feature_history[pid]) = Min(cl_fresh[pid], sequence_length)
            /\ \A i \in 1..Len(feature_history[pid]) :
                 /\ feature_history[pid][i].pid = pid
                 /\ i > 1 => feature_history[pid][i - 1].timestamp
                               < feature_history[pid][i].timestamp)
    /\ [][ IsLearnerUpdate =>
             \A pid \in DOMAIN feature_history' :
               IF cl_drift' = "drift" THEN feature_history'[pid] = <<>>
               ELSE IF cl_fresh'[pid] = FreshBefore(pid) + 1
               THEN LET window == feature_history'[pid]
                    IN  /\ window # <<>>
                        /\ window[Len(window)].timestamp = cl_time
                        /\ window = LastOf(WindowBefore(pid) \o <<window[Len(window)]>>,
                                           sequence_length)
               ELSE feature_history'[pid] = WindowBefore(pid) ]_vars

\* C24 witness: a full window from which the oldest sample was evicted.
C24_Witness ==
    \E pid \in DOMAIN feature_history :
        /\ cl_fresh[pid] > sequence_length
        /\ Len(feature_history[pid]) = sequence_length
        /\ feature_history[pid][1].timestamp > 0
        /\ cl_drifted = FALSE

\* C28: the optimizer of every pid has the shared learning rate, whatever
\* creations, drift resets and anomalies came before, and process_predictors,
\* optimizers and feature_history have the same keys.
C28_OptimizersShareLearningRate ==
    /\ \A pid \in DOMAIN optimizers : optimizers[pid].lr = learning_rate
    /\ DOMAIN process_predictors = DOMAIN optimizers
    /\ DOMAIN optimizers = DOMAIN feature_history

\* C28 witness: after an anomaly escalated the rate, a drift reset re-created
\* the optimizers of two pids, with the escalated rate.
C28_Witness ==
    /\ cl_anomalies > 0
    /\ cl_drift = "drift"
    /\ cl_score = NoScore
    /\ learning_rate > BaseLearningRate
    /\ DOMAIN optimizers = {L_a.pid, L_b.pid}
    /\ \A pid \in DOMAIN optimizers :
         optimizers[pid].steps = 0 /\ optimizers[pid].lr = learning_rate

(***************************************************************************)
(* Failure isolation of ContinualLearner.update, checked under SpecLearner. *)
(***************************************************************************)

\* C20: every update() pass, one in which a process entry fails included,
\* goes on to run drift detection and anomaly detection.
C20_DetectorsRunAfterFailure ==
    [][ IsLearnerUpdate => cl_drift' # "not_run" ]_vars

(***************************************************************************)
(* Callers of SynergyCore.process at once, checked under SpecConcurrent.   *)
(***************************************************************************)

\* the threads that passed the cadence check and have not returned
InBatch == {t \in Threads : cc_pc[t] # "idle"}

\* C18: while one caller's batch is in progress no other caller starts one.
C18_SingleFlight == Cardinality(InBatch) <= 1

(***************************************************************************)
(* Construction of QuantumScheduler, checked under SpecConstruct.          *)
(***************************************************************************)

\* C21: constructing the engine with num_qubits <= 0 fails: no engine that
\* accepts update calls exists with such a dimension.
C21_InvalidDimensionRejected == qc_built => qc_num_qubits > 0

\* a step that is an update() call which completed an optimization
IsOptimizedTick == now' = now /\ ~qs_query'.called /\ qs_path' = "optimized"

\* a step that is an update() call made once the relaxation interval elapsed
\* and that tracks a process when _optimize_scheduling is reached
IsDueTick ==
    /\ now' = now /\ ~qs_query'.called /\ qs_path' # "raised"
    /\ SchedulerShouldOptimize
    /\ process_states' # <<>>

\* C25: an optimization tick that runs with a tracked process appends exactly
\* one record to the optimization log, with the time, the temperature of the
\* tick and the priority just committed for exactly the tracked pids; no other
\* step changes the log, and no step of the scheduler touches the action
\* history of SynergyCore.
C25_OneRecordPerOptimization ==
    [][ /\ IsDueTick => IsOptimizedTick
        /\ IF IsOptimizedTick
           THEN /\ Len(scheduler_history') = Len(scheduler_history) + 1
                /\ SubSeq(scheduler_history', 1, Len(scheduler_history))
                      = scheduler_history
                /\ LET record == scheduler_history'[Len(scheduler_history')]
                   IN  /\ record.timestamp = now
                       /\ record.temperature = temperature
                       /\ DOMAIN record.priorities = TrackedPids(process_states')
                       /\ DOMAIN record.priorities # {}
                       /\ \A i \in 1..Len(process_states') :
                            record.priorities[process_states'[i].pid]
                              = process_states'[i].priority
           ELSE scheduler_history' = scheduler_history
        /\ optimization_history' = optimization_history ]_vars

\* C25 witness: the log holds one record, of a tick with three processes.
C25_Witness ==
    /\ qs_path = "optimized"
    /\ Len(scheduler_history) = 1
    /\ DOMAIN scheduler_history[1].priorities = {Q_a2.pid, Q_b.pid, Q_c.pid}
    /\ \E i \in 1..Len(process_states) :
         /\ ~process_states[i].priority.nan
         /\ process_states[i].priority.value > 0

\* a step that is an update() call made before the relaxation interval elapsed
IsEarlyTick ==
    now' = now /\ ~qs_query'.called /\ now - scheduler_last < RelaxationInterval

\* C26: an update() call made less than the relaxation interval after the last
\* completed optimization (or after construction) runs no optimization: the
\* temperature, the log and last_optimization stay, every tracked pid stays
\* tracked with its state vector and priority, a pid that is not in the
\* snapshot keeps its whole record, a pid of a snapshot that was read to its
\* end gets the time of the snapshot, and a newly seen pid is added with
\* priority 0.
C26_EarlyTickOnlyRefreshes ==
    [][ IsEarlyTick =>
          /\ qs_path' \in {"skipped", "raised"}
          /\ temperature' = temperature
          /\ scheduler_history' = scheduler_history
          /\ scheduler_last' = scheduler_last
          /\ TrackedPids(process_states) \subseteq TrackedPids(process_states')
          /\ \A i \in 1..Len(process_states') :
               LET new == process_states'[i]
                   pid == new.pid
               IN  /\ pid \in TrackedPids(process_states) =>
                        LET old == process_states[IndexOf(process_states, pid)]
                        IN  /\ new.quantum_state = old.quantum_state
                            /\ new.priority = old.priority
                            /\ qs_absent'[pid] # 0 => new = old
                   /\ pid \notin TrackedPids(process_states) =>
                        /\ new.priority = Num(0)
                        /\ new.last_update = now
                   /\ (qs_path' = "skipped" /\ qs_absent'[pid] = 0)
                        => new.last_update = now ]_vars

\* C26 witness: a call right after a completed optimization was skipped; it
\* refreshed a process that has a committed priority and added a new one.
C26_Witness ==
    /\ qs_path = "skipped"
    /\ scheduler_history # <<>>
    /\ scheduler_last = now
    /\ \E i, j \in 1..Len(process_states) :
         /\ process_states[i].priority # Num(0)
         /\ process_states[i].resource_usage.cpu = Q_a2.cpu_percent
         /\ process_states[j].priority = Num(0)
         /\ process_states[j].last_update = now

\* C27: the renormalization never divides by a zero norm, so no tracked
\* process ever has an undefined (NaN) state vector or priority.
C27_NoUndefinedState ==
    \A i \in 1..Len(process_states) :
        /\ process_states[i].quantum_state # NaNState
        /\ ~process_states[i].priority.nan

(***************************************************************************)
(* The temperature of QuantumScheduler, checked under SpecCooling.         *)
(***************************************************************************)

\* the completed optimization ticks after which 0.95^n is below 0.01
TicksToFloor == 90

\* C23: the temperature starts at 1.0 and stays within [min_temperature, 1.0];
\* a step that appends to the optimization log replaces it by
\* max(min_temperature, temperature * annealing_rate) and no other step changes
\* it, so it never increases; after TicksToFloor completed ticks it is
\* min_temperature, and it stays there.
C23_TemperatureCoolsToFloor ==
    /\ [](/\ min_temperature <= temperature
          /\ temperature <= InitialTemperature
          /\ scheduler_history = <<>> => temperature = InitialTemperature
          /\ Len(scheduler_history) >= TicksToFloor => temperature = min_temperature)
    /\ [][ /\ temperature' <= temperature
           /\ temperature' =
                IF scheduler_history' # scheduler_history THEN Cooled(temperature)
                ELSE temperature
           /\ temperature = min_temperature => temperature' = min_temperature ]_vars

\* C23 witness: the floor was reached by cooling and one more optimization
\* tick completed at the floor.
C23_Witness ==
    /\ temperature = min_temperature
    /\ qs_path = "optimized"
    /\ scheduler_history[Len(scheduler_history)].temperature = min_temperature

(***************************************************************************)
(* The safety checks of ProcessManager, checked under SpecManager.         *)
(***************************************************************************)

\* the pids of the processes whose name contains plc, scada or control
CriticalPids ==
    {pid \in DOMAIN OsProcesses :
        ContainsAny(LowerName(OsProcesses[pid].name), CriticalKeywords)}

\* C29: a process whose name contains plc, scada or control keeps its priority
\* and keeps running whatever ProcessManager is asked to do, and
\* terminate_process, kill_process and suspend_process return False for it.
C29_CriticalProcessesUntouched ==
    /\ \A pid \in CriticalPids :
         /\ pm_procs[pid].nice = OsProcesses[pid].nice
         /\ pm_procs[pid].status = "running"
    /\ (/\ pm_result.op \in {"terminate_process", "kill_process", "suspend_process"}
        /\ pm_result.pid \in CriticalPids)
          => pm_result.returned = "False"

\* C29 witness: kill_process was refused for the process named PLC.x after
\* other processes were reprioritized, one suspended and one terminated.
C29_Witness ==
    /\ pm_result = Called("kill_process", 1100, "False")
    /\ pm_procs[1300].nice > 0
    /\ pm_procs[1300].status = "suspended"
    /\ pm_procs[1500].status = "terminated"
    /\ pm_procs[1500].nice < 0

(***************************************************************************)
(* The settings of utils.quantum_scheduler.QuantumScheduler, checked under *)
(* SpecUtilsScheduler.                                                     *)
(***************************************************************************)

\* the pids of a sequence of process entries
PidsOf(entries) == {entries[i].pid : i \in 1..Len(entries)}

\* whether the argument of the last setter call was a valid one
ValidArgument(call) ==
    CASE call.op = "set_entanglement_level" ->
             call.arg.kind # "str" /\ 0 <= call.arg.twice /\ call.arg.twice <= 200
      [] call.op = "set_optimization_mode" ->
             call.arg \in {"Standard", "Aggressive", "Conservative"}
      [] call.op = "set_process_limit" -> call.arg.kind # "str" /\ call.arg.twice > 0
      [] OTHER -> TRUE

\* C30: whatever the setters are called with, entanglement_level stays in
\* [0, 100], optimization_mode stays one of the three modes and process_limit
\* stays positive; a call with an invalid argument changes no setting; and
\* optimize_processes returns at most process_limit processes, none of them
\* with a lower cpu_percent + memory_percent than a process it left out.
C30_SettingsValidAndLimitKept ==
    /\ [](/\ 0 <= entanglement_level.twice /\ entanglement_level.twice <= 200
          /\ optimization_mode \in {"Standard", "Aggressive", "Conservative"}
          /\ process_limit.twice > 0
          /\ us_result.op = "optimize_processes" =>
                /\ 2 * Len(us_result.returned) <= process_limit.twice
                /\ PidsOf(us_result.returned) \subseteq PidsOf(us_result.arg)
                /\ \A i, j \in 1..Len(us_result.arg) :
                     (/\ us_result.arg[i].pid \in PidsOf(us_result.returned)
                      /\ us_result.arg[j].pid \notin PidsOf(us_result.returned))
                       => Load(us_result.arg[i]) >= Load(us_result.arg[j]))
    /\ [][ ~ValidArgument(us_result') =>
             UNCHANGED <<entanglement_level, optimization_mode, process_limit>> ]_vars

====
